---- MODULE Spec2Model ----
(***************************************************************************)
(* Beatcutter: beat grid construction, the auto-sync planner and the       *)
(* timeline edit operations of App.tsx.                                    *)
(*                                                                         *)
(* Representation.  Times are integers.  A quantity the source holds in    *)
(* milliseconds is that integer; a quantity the source holds in seconds    *)
(* (beat times, grid offset, durationSec) is held as the integer number of *)
(* milliseconds, so `x * 1000` and `x / 1000` of the source only change    *)
(* the unit of the same represented number.  60 / bpm is 60000 \div bpm,   *)
(* and the bpm values used divide 60000.  Bar counts that may be           *)
(* fractional are held in quarter bars.  Where the rounding of JavaScript  *)
(* numbers decides what is computed, buildBeatGrid is also given in IEEE   *)
(* 754 binary64 arithmetic (buildBeatGridFromZero).                        *)
(***************************************************************************)
EXTENDS Integers, Sequences, FiniteSets, TLC

VARIABLES
    call,                \* pure-function specifications: the arguments
    ret,                 \* pure-function specifications: the returned value
    clips,               \* App state: SourceClip[]
    tracks,              \* App state: TimelineTrack[]
    beatGrid,            \* App state: BeatGrid
    introSkipFrames,     \* App state
    duration,            \* App state: total duration (ms)
    selectedSegmentId,   \* App state: segment id or null
    selectedMediaClipId, \* App state: clip id or null
    mediaClipBars,       \* App state, in quarter bars
    swapMode,            \* App state
    swapSourceId,        \* App state: segment id or null
    masterAudioBuffer,   \* masterAudioBufferRef.current !== null
    playbackState,       \* App state: [isPlaying, currentTime]
    startTimeRef,        \* startTimeRef.current
    animationFrameRef,   \* the loop closure requestAnimationFrame holds, if any
    now,                 \* performance.now()
    activeJobs,          \* electron/ffmpeg.ts: the activeJobs map
    children,            \* the child processes spawn() returned, oldest first
    ffmpegRunInvokes,    \* ipcRenderer.invoke("ffmpeg:run", ...) calls and their promises
    exportOpen,          \* App state
    exporting,           \* App state
    exportProgress,      \* App state
    exportError,         \* App state: a message or null
    exportJob,           \* the handleExport call awaiting runFfmpeg, if any
    progressListeners,   \* job ids whose listener is on "ffmpeg:progress"
    proxyJobsRef,        \* proxyJobsRef.current: clip id -> job id
    reverseProxyJobsRef, \* reverseProxyJobsRef.current: clip id -> job id
    proxyRuns,           \* runProxy(...) calls and their promises, oldest first
    proxyPaths,          \* per clip id: the clip has a proxyPath, a reverseProxyPath
    last,                \* history: the handler that ran last and its input
    steps                \* number of handlers run so far

\* the transport
transportVars == <<playbackState, startTimeRef, animationFrameRef, now>>

\* the state the timeline edit handlers neither read nor write
\* the ffmpeg jobs of the main process and the invokes that reach it
jobVars == <<activeJobs, children, ffmpegRunInvokes>>

\* the export dialog
exportVars == <<exportOpen, exporting, exportProgress, exportError, exportJob,
                progressListeners>>

\* proxy generation
proxyVars == <<proxyJobsRef, reverseProxyJobsRef, proxyRuns, proxyPaths>>

nonEditorVars == <<transportVars, jobVars, exportVars, proxyVars>>

vars == <<call, ret, clips, tracks, beatGrid, introSkipFrames, duration,
          selectedSegmentId, selectedMediaClipId, mediaClipBars, swapMode,
          swapSourceId, masterAudioBuffer, nonEditorVars, last, steps>>

appVars == <<clips, tracks, beatGrid, introSkipFrames, duration,
             selectedSegmentId, selectedMediaClipId, mediaClipBars, swapMode,
             swapSourceId, masterAudioBuffer, nonEditorVars, last, steps>>

----------------------------------------------------------------------------
(* Bounds of the model *)

MaxSteps == 6         \* handlers run in one behaviour
MaxSegs == 3          \* segment ids available at one time
MaxClips == 2         \* clip ids available at one time
MaxGridBeats == 6     \* longest hand-made beat grid given to the planner
MaxRuns == 3          \* ffmpeg run requests sent in one behaviour

----------------------------------------------------------------------------
(* Program constants *)

null == 0
BEATS_PER_BAR == 4
DEFAULT_FPS == 30
DefaultDuration == 30000

----------------------------------------------------------------------------
(* Arithmetic and array helpers *)

Max(a, b) == IF a >= b THEN a ELSE b
Min(a, b) == IF a <= b THEN a ELSE b

SeqToSet(s) == { s[i] : i \in 1..Len(s) }

\* xs.map(f)
MapSeq(f(_), xs) == [i \in 1..Len(xs) |-> f(xs[i])]

\* [...new Set(xs)]: first occurrences, in insertion order
Dedupe(xs) ==
    LET IsFirst(i) == \A j \in 1..(i - 1) : xs[j] # xs[i]
        firsts == SelectSeq([i \in 1..Len(xs) |-> i], IsFirst)
    IN [k \in 1..Len(firsts) |-> xs[firsts[k]]]

\* Array.prototype.sort with a numeric key comparator (stable)
SortBy(key(_), xs) ==
    LET Before(a, b) == key(a) < key(b)
    IN SortSeq(xs, Before)

Identity(x) == x
SortNumeric(xs) == SortBy(Identity, xs)

----------------------------------------------------------------------------
(* services/audioUtils.ts: buildBeatGrid *)

SecondsPerBeat(bpm) == 60000 \div bpm

\* the number of times a loop runs that adds step > 0 to a value while the
\* value is below a limit it starts distance > 0 away from
LoopCount(distance, step) == (distance + step - 1) \div step

\* while (t > 0) t -= spb: the value of t when the loop ends
Backfill(t, spb) == IF t > 0 THEN t - LoopCount(t, spb) * spb ELSE t

\* while (t < durationSec) { if (t >= -0.1) push(max(0, t)); t += spb }:
\* the values t takes in the loop body, and what is pushed for them
ForwardFill(t, spb, durationSec) ==
    LET n == IF t < durationSec THEN LoopCount(durationSec - t, spb) ELSE 0
        visited == [i \in 1..n |-> t + (i - 1) * spb]
        Pushed(x) == x >= -100
        Clamp(x) == Max(0, x)
    IN MapSeq(Clamp, SelectSeq(visited, Pushed))

buildBeatGrid_keepDuplicates(bpm, offset, durationSec) ==
    LET spb == SecondsPerBeat(bpm)
        cleanBeats == ForwardFill(Backfill(offset, spb), spb, durationSec)
    IN [bpm |-> bpm, offset |-> offset, beats |-> SortNumeric(cleanBeats)]

buildBeatGrid(bpm, offset, durationSec) ==
    LET spb == SecondsPerBeat(bpm)
        cleanBeats == ForwardFill(Backfill(offset, spb), spb, durationSec)
        uniqueBeats == SortNumeric(Dedupe(cleanBeats))
    IN [bpm |-> bpm, offset |-> offset, beats |-> uniqueBeats]

----------------------------------------------------------------------------
(* services/syncEngine.ts: autoSyncClips *)

\* Math.round on a value held in quarters: floor(x + 0.5)
RoundQuarters(q) == (q + 2) \div 4

\* a.name.localeCompare(b.name, undefined, {numeric: true}): a name is a
\* stem followed by a number, <<stem, number>>; numbers compare by value
NameKey(clip) == clip.name[1] * 1000 + clip.name[2]

OrderClipsByName_unsorted(clipList) == clipList

OrderClipsByName(clipList) == SortBy(NameKey, clipList)

SanitizedBars(preferredBars) ==
    IF preferredBars.finite THEN Max(1, RoundQuarters(preferredBars.quarters)) ELSE 4

AllowedBarLengths_ascending(preferredBars) ==
    LET sanitizedBars == SanitizedBars(preferredBars)
        IsFallback(bars) == bars < sanitizedBars
        fallbackBars == SelectSeq(<<1, 2, 4>>, IsFallback)
        bars == Dedupe(fallbackBars \o <<sanitizedBars>>)
    IN [i \in 1..Len(bars) |-> bars[i] * BEATS_PER_BAR]

AllowedBarLengths(preferredBars) ==
    LET sanitizedBars == SanitizedBars(preferredBars)
        IsFallback(bars) == bars < sanitizedBars
        fallbackBars == SelectSeq(<<4, 2, 1>>, IsFallback)
        bars == Dedupe(<<sanitizedBars>> \o fallbackBars)
    IN [i \in 1..Len(bars) |-> bars[i] * BEATS_PER_BAR]

FirstSegmentBeatAdjustment(grid) ==
    LET secondsPerBeat == SecondsPerBeat(grid.bpm)
        missingBeats == IF grid.offset < 0
                        THEN ((-grid.offset) \div secondsPerBeat) + 1
                        ELSE 0
    IN Max(0, missingBeats - 1)

AdjustedBeatLength_always(beatIndex, beatLength, adjustment) ==
    Max(1, beatLength - adjustment)

\* adjustedBeatLength, and fallbackLength for beatsPerBar
AdjustedBeatLength(beatIndex, beatLength, adjustment) ==
    IF beatIndex = 0 THEN Max(1, beatLength - adjustment) ELSE beatLength

\* the for-loop over allowedBarLengths: first candidate inside the grid, or -1
RECURSIVE FirstFit(_, _, _, _)
FirstFit(allowed, beatIndex, adjustment, nBeats) ==
    IF allowed = <<>> THEN -1
    ELSE LET candidateIndex ==
                 beatIndex + AdjustedBeatLength(beatIndex, Head(allowed), adjustment)
         IN IF candidateIndex < nBeats THEN candidateIndex
            ELSE FirstFit(Tail(allowed), beatIndex, adjustment, nBeats)

\* if (duration < 100): "Skip really short glitches"
IsGlitch_never(segDuration) == FALSE

IsGlitch(segDuration) == segDuration < 100

\* the while-loop; beatIndex is 0-based as in the source, beats is 1-based
RECURSIVE SyncLoop(_, _, _, _, _, _, _)
SyncLoop(orderedClips, beats, allowed, adjustment, totalDuration,
         beatIndex, segments) ==
    IF ~(beatIndex < Len(beats) - 1) THEN segments
    ELSE
      LET startTime == beats[beatIndex + 1]
          segmentIndex == Len(segments)
          clip == orderedClips[(segmentIndex % Len(orderedClips)) + 1]
          fit == FirstFit(allowed, beatIndex, adjustment, Len(beats))
          fallbackIndex ==
              beatIndex + AdjustedBeatLength(beatIndex, BEATS_PER_BAR, adjustment)
          chosenEndBeatIndex == IF fit < 0 THEN fallbackIndex ELSE fit
      IN IF fit < 0 /\ fallbackIndex >= Len(beats) THEN segments
         ELSE
           LET endTime == beats[chosenEndBeatIndex + 1]
               segDuration == endTime - startTime
               pushed == Append(segments,
                                [id |-> segmentIndex + 1,
                                 sourceClipId |-> clip.id,
                                 timelineStart |-> startTime,
                                 duration |-> segDuration,
                                 sourceStartOffset |-> 0])
           IN IF IsGlitch(segDuration)
              THEN SyncLoop(orderedClips, beats, allowed, adjustment,
                            totalDuration, beatIndex + 1, segments)
              ELSE IF startTime > totalDuration THEN pushed
              ELSE SyncLoop(orderedClips, beats, allowed, adjustment,
                            totalDuration, chosenEndBeatIndex, pushed)

NothingToSync_never(orderedClips, beats) == FALSE

\* orderedClips.length === 0 || beatGrid.beats.length === 0
NothingToSync(orderedClips, beats) == Len(orderedClips) = 0 \/ Len(beats) = 0

\* what a call that throws gives instead of a segment list
TypeError == <<"TypeError">>

\* the returned segments carry the ordinal of their uuid as id.  Once the
\* loop body runs without clips, orderedClips[segmentIndex % 0] is undefined
\* and reading its fields throws
autoSyncClips(clipList, grid, totalDuration, preferredBars) ==
    IF NothingToSync(clipList, grid.beats) THEN <<>>
    ELSE IF Len(clipList) = 0 /\ Len(grid.beats) > 1 THEN TypeError
    ELSE SyncLoop(OrderClipsByName(clipList), grid.beats,
                  AllowedBarLengths(preferredBars),
                  FirstSegmentBeatAdjustment(grid), totalDuration, 0, <<>>)

----------------------------------------------------------------------------
(* App.tsx: lookups over clips and tracks *)

ClipIds(clipList) == { clipList[i].id : i \in 1..Len(clipList) }

\* clips.find(c => c.id === id), for an id that is present
ClipById(clipList, id) ==
    clipList[CHOOSE i \in 1..Len(clipList) :
                 clipList[i].id = id /\ \A j \in 1..(i - 1) : clipList[j].id # id]

SegmentIds(segments) == { segments[i].id : i \in 1..Len(segments) }

\* segments.find(s => s.id === id), for an id that is present
SegmentById(segments, id) ==
    segments[CHOOSE i \in 1..Len(segments) :
                 segments[i].id = id /\ \A j \in 1..(i - 1) : segments[j].id # id]

\* tracks.flatMap(track => track.segments)
RECURSIVE FlatSegments(_)
FlatSegments(trackList) ==
    IF trackList = <<>> THEN <<>>
    ELSE Head(trackList).segments \o FlatSegments(Tail(trackList))

\* tracks.find(t => t.segments.some(s => s.id === id)): its index, 0 if none
TrackIndexOf(trackList, id) ==
    IF \E i \in 1..Len(trackList) : id \in SegmentIds(trackList[i].segments)
    THEN CHOOSE i \in 1..Len(trackList) :
             /\ id \in SegmentIds(trackList[i].segments)
             /\ \A j \in 1..(i - 1) : id \notin SegmentIds(trackList[j].segments)
    ELSE 0

TimelineStartOf(seg) == seg.timelineStart

\* [...segments].sort((a, b) => a.timelineStart - b.timelineStart)
OrderedSegments(segments) == SortBy(TimelineStartOf, segments)

\* orderById.get(id) ?? -1, 0-based as in the source
OrderIndex(segments, id) ==
    LET ordered == OrderedSegments(segments)
    IN IF id \in SegmentIds(segments)
       THEN (CHOOSE i \in 1..Len(ordered) : ordered[i].id = id) - 1
       ELSE -1

\* {...s, ...updates}
Merge(seg, updates) ==
    [f \in DOMAIN seg |-> IF f \in DOMAIN updates THEN updates[f] ELSE seg[f]]

----------------------------------------------------------------------------
(* App.tsx: the state updates of the segment edit handlers, as functions of  *)
(* the previous tracks                                                      *)

\* handleUpdateSegment, the body of prev.map for one track
UpdateSegmentInTrack_noShift(t, id, updates) ==
    IF id \notin SegmentIds(t.segments) THEN t
    ELSE LET target == SegmentById(t.segments, id)
             nextDuration == IF "duration" \in DOMAIN updates
                             THEN updates.duration ELSE target.duration
             Shift(s) == IF s.id = id
                         THEN [Merge(s, updates) EXCEPT !.duration = nextDuration]
                         ELSE s
         IN [t EXCEPT !.segments = MapSeq(Shift, t.segments)]

UpdateSegmentInTrack(t, id, updates) ==
    IF id \notin SegmentIds(t.segments) THEN t
    ELSE LET target == SegmentById(t.segments, id)
             nextDuration == IF "duration" \in DOMAIN updates
                             THEN updates.duration ELSE target.duration
             delta == nextDuration - target.duration
             targetIndex == OrderIndex(t.segments, id)
             Shift(s) ==
                 IF s.id = id
                 THEN [Merge(s, updates) EXCEPT !.duration = nextDuration]
                 ELSE IF /\ delta # 0
                         /\ targetIndex >= 0
                         /\ OrderIndex(t.segments, s.id) > targetIndex
                      THEN [s EXCEPT !.timelineStart = s.timelineStart + delta]
                      ELSE s
         IN [t EXCEPT !.segments = MapSeq(Shift, t.segments)]

UpdatedTracks(prev, id, updates) ==
    [i \in 1..Len(prev) |-> UpdateSegmentInTrack(prev[i], id, updates)]

\* handleRemoveSegment, the body of prev.map for one track
RemoveSegmentInTrack_noShift(t, id) ==
    LET Keep(s) == s.id # id
    IN [t EXCEPT !.segments = SelectSeq(t.segments, Keep)]

RemoveSegmentInTrack(t, id) ==
    LET Keep(s) == s.id # id
    IN IF id \notin SegmentIds(t.segments)
       THEN [t EXCEPT !.segments = SelectSeq(t.segments, Keep)]
       ELSE LET target == SegmentById(t.segments, id)
                targetIndex == OrderIndex(t.segments, id)
                Shift(s) ==
                    IF targetIndex >= 0 /\ OrderIndex(t.segments, s.id) > targetIndex
                    THEN [s EXCEPT !.timelineStart = s.timelineStart - target.duration]
                    ELSE s
            IN [t EXCEPT !.segments = MapSeq(Shift, SelectSeq(t.segments, Keep))]

RemovedTracks(prev, id) ==
    [i \in 1..Len(prev) |-> RemoveSegmentInTrack(prev[i], id)]

NextSelectionAfterRemove_null(trackList, id) == null

\* the selection handleRemoveSegment computes when the removed segment is selected
NextSelectionAfterRemove(trackList, id) ==
    LET ti == TrackIndexOf(trackList, id)
    IN IF ti = 0 THEN null
       ELSE LET ordered == OrderedSegments(trackList[ti].segments)
                targetIndex == CHOOSE i \in 1..Len(ordered) : ordered[i].id = id
            IN IF targetIndex + 1 <= Len(ordered)
               THEN ordered[targetIndex + 1].id ELSE null

\* clampOffsetForClip
clampOffsetForClip_noFloor(clipId, durationMs, offsetMs) ==
    LET maxOffset == IF clipId \in ClipIds(clips)
                     THEN ClipById(clips, clipId).duration - durationMs
                     ELSE 0
    IN Min(Max(0, offsetMs), maxOffset)

clampOffsetForClip(clipId, durationMs, offsetMs) ==
    LET maxOffset == IF clipId \in ClipIds(clips)
                     THEN Max(0, ClipById(clips, clipId).duration - durationMs)
                     ELSE 0
    IN Min(Max(0, offsetMs), maxOffset)

\* handleSwapSegments, the updater given to setTracks
SwappedTracks_keepOffsets(prev, sourceId, targetId) ==
    LET si == TrackIndexOf(prev, sourceId)
        ti == TrackIndexOf(prev, targetId)
    IN IF si = 0 \/ ti = 0 THEN prev
       ELSE IF prev[si].type # prev[ti].type THEN prev
       ELSE
         LET sourceSegment == SegmentById(prev[si].segments, sourceId)
             targetSegment == SegmentById(prev[ti].segments, targetId)
             Swap(seg) ==
                 IF seg.id = sourceSegment.id
                 THEN [seg EXCEPT !.sourceClipId = targetSegment.sourceClipId,
                                  !.sourceStartOffset = targetSegment.sourceStartOffset]
                 ELSE IF seg.id = targetSegment.id
                 THEN [seg EXCEPT !.sourceClipId = sourceSegment.sourceClipId,
                                  !.sourceStartOffset = sourceSegment.sourceStartOffset]
                 ELSE seg
         IN [i \in 1..Len(prev) |->
               IF prev[i].id # prev[si].id /\ prev[i].id # prev[ti].id THEN prev[i]
               ELSE [prev[i] EXCEPT !.segments = MapSeq(Swap, prev[i].segments)]]

SwappedTracks(prev, sourceId, targetId) ==
    LET si == TrackIndexOf(prev, sourceId)
        ti == TrackIndexOf(prev, targetId)
    IN IF si = 0 \/ ti = 0 THEN prev
       ELSE IF prev[si].type # prev[ti].type THEN prev
       ELSE
         LET sourceSegment == SegmentById(prev[si].segments, sourceId)
             targetSegment == SegmentById(prev[ti].segments, targetId)
             nextSourceOffset == clampOffsetForClip(targetSegment.sourceClipId,
                                                    sourceSegment.duration,
                                                    targetSegment.sourceStartOffset)
             nextTargetOffset == clampOffsetForClip(sourceSegment.sourceClipId,
                                                    targetSegment.duration,
                                                    sourceSegment.sourceStartOffset)
             Swap(seg) ==
                 IF seg.id = sourceSegment.id
                 THEN [seg EXCEPT !.sourceClipId = targetSegment.sourceClipId,
                                  !.sourceStartOffset = nextSourceOffset]
                 ELSE IF seg.id = targetSegment.id
                 THEN [seg EXCEPT !.sourceClipId = sourceSegment.sourceClipId,
                                  !.sourceStartOffset = nextTargetOffset]
                 ELSE seg
         IN [i \in 1..Len(prev) |->
               IF prev[i].id # prev[si].id /\ prev[i].id # prev[ti].id THEN prev[i]
               ELSE [prev[i] EXCEPT !.segments = MapSeq(Swap, prev[i].segments)]]

----------------------------------------------------------------------------
(* Inputs the model draws *)

BpmChoices == {60, 120, 300, 1200}
OffsetChoices == {-1200, -500, -50, 0, 30, 450, 700, 1250}
DurationSecChoices == {0, 1, 1000, 2200, 4000}

\* imported video files: <<name, duration>>
VideoFileChoices == { << <<1, 10>>, 1500 >>, << <<1, 2>>, 9000 >> }
AudioDurationChoices == {5000}
AnalyzedBpmChoices == {120}
AnchorBeatChoices == {250}
MediaClipBarsChoices == {1, 16}
ResizeChoices == {-5, 9000}
SlipChoices == {700}
AutoSyncBpmChoices == {20, 120}
AutoSyncBarsChoices == {8}
AutoSyncIntroSkipChoices == {0, 3}

----------------------------------------------------------------------------
(* App.tsx: state after construction *)

InitialTracks ==
    << [id |-> "video-1", type |-> "video", segments |-> <<>>],
       [id |-> "audio-1", type |-> "audio", segments |-> <<>>] >>

EmptyBeatGrid == [bpm |-> 120, offset |-> 0, beats |-> <<>>]

\* no loop is scheduled
NoFrame == [scheduled |-> FALSE, duration |-> 0]

\* the job ids in use
JobIds == 1..MaxRuns

\* activeJobs.get(jobId) === undefined
NoChild == 0

\* exportError === null
NoError == [kind |-> "null"]

\* no handleExport call is suspended at its await
NoExportJob == [awaiting |-> FALSE, invoke |-> 0]

\* the handler that ran last, the id it was given, its numeric input and two
\* values of the state it ran in
Hist(op, id, arg, old, old2) ==
    [op |-> op, id |-> id, arg |-> arg, old |-> old, old2 |-> old2]

\* a handler ran: record it and count it
Ran(op, id, arg, old, old2) ==
    /\ steps < MaxSteps
    /\ steps' = steps + 1
    /\ last' = Hist(op, id, arg, old, old2)

\* no job id
NoJob == 0

\* new Map()
NoProxyJobs == [clipId \in 1..MaxClips |-> NoJob]

NoPaths == [proxyPath |-> FALSE, reverseProxyPath |-> FALSE]
NoProxyPaths == [clipId \in 1..MaxClips |-> NoPaths]

InitApp ==
    /\ clips = <<>>
    /\ tracks = InitialTracks
    /\ beatGrid = EmptyBeatGrid
    /\ introSkipFrames = 0
    /\ duration = DefaultDuration
    /\ selectedSegmentId = null
    /\ selectedMediaClipId = null
    /\ mediaClipBars = 16
    /\ swapMode = FALSE
    /\ swapSourceId = null
    /\ masterAudioBuffer = FALSE
    /\ playbackState = [isPlaying |-> FALSE, currentTime |-> 0]
    /\ startTimeRef = 0
    /\ animationFrameRef = NoFrame
    /\ now = 0
    /\ activeJobs = [jobId \in JobIds |-> NoChild]
    /\ children = <<>>
    /\ ffmpegRunInvokes = <<>>
    /\ exportOpen = FALSE
    /\ exporting = FALSE
    /\ exportProgress = 0
    /\ exportError = NoError
    /\ exportJob = NoExportJob
    /\ progressListeners = {}
    /\ proxyJobsRef = NoProxyJobs
    /\ reverseProxyJobsRef = NoProxyJobs
    /\ proxyRuns = <<>>
    /\ proxyPaths = NoProxyPaths
    /\ last = Hist("init", null, 0, 0, 0)
    /\ steps = 0

NoCall == [fn |-> "none"]
NoRet == [done |-> FALSE]

Init ==
    /\ InitApp
    /\ call = NoCall
    /\ ret = NoRet

----------------------------------------------------------------------------
(* uuidv4(): an id nothing in the state refers to *)

RECURSIVE SetToSortedSeq(_)
SetToSortedSeq(S) ==
    IF S = {} THEN <<>>
    ELSE LET m == CHOOSE x \in S : \A y \in S : x <= y
         IN <<m>> \o SetToSortedSeq(S \ {m})

\* segment ids free once the segments of the tracks of type dropType are dropped
FreeSegIds(dropType) ==
    LET kept == { i \in 1..Len(tracks) : tracks[i].type # dropType }
        inUse == UNION { SegmentIds(tracks[i].segments) : i \in kept }
    IN SetToSortedSeq((1..MaxSegs) \ (inUse \cup {selectedSegmentId, swapSourceId}))

\* the clip ids of the runProxy calls that have not settled
PendingProxyClipIds ==
    { proxyRuns[i].clipId : i \in { j \in 1..Len(proxyRuns) : ~proxyRuns[j].settled } }

FreeClipIds ==
    SetToSortedSeq((1..MaxClips)
                     \ (ClipIds(clips) \cup {selectedMediaClipId} \cup PendingProxyClipIds))

\* cancelProxy(jobId) for the job ids of a set: the message is sent
CancelledRuns(runs, jobIds) ==
    [i \in 1..Len(runs) |->
        IF i \in jobIds THEN [runs[i] EXCEPT !.cancelSent = TRUE] ELSE runs[i]]

----------------------------------------------------------------------------
(* App.tsx: handleImport, one file per call *)

\* the result of analyzeBeats for a buffer: an estimated bpm, the first onset
\* as anchor and the clean grid built from them
AnalysisResult(bpm, anchorBeat, bufferDuration) ==
    [bpm |-> bpm, offset |-> anchorBeat,
     beats |-> buildBeatGrid(bpm, anchorBeat, bufferDuration).beats]

handleImport(isAudio, name, mediaDuration, bpm, anchorBeat) ==
    /\ FreeClipIds # <<>>
    /\ LET clipId == Head(FreeClipIds)
           newClip == [id |-> clipId,
                       duration |-> IF mediaDuration # 0 THEN mediaDuration ELSE 1000,
                       name |-> name,
                       type |-> IF isAudio THEN "audio" ELSE "video"]
           analyse == isAudio /\ ~masterAudioBuffer /\ mediaDuration > 0
       IN /\ analyse => FreeSegIds("audio") # <<>>
          /\ IF analyse
             THEN /\ masterAudioBuffer' = TRUE
                  /\ beatGrid' = AnalysisResult(bpm, anchorBeat, mediaDuration)
                  /\ introSkipFrames' = 0
                  /\ duration' = mediaDuration
                  /\ tracks' = [i \in 1..Len(tracks) |->
                        IF tracks[i].type = "audio"
                        THEN [tracks[i] EXCEPT !.segments =
                                << [id |-> Head(FreeSegIds("audio")),
                                    sourceClipId |-> clipId,
                                    timelineStart |-> 0,
                                    duration |-> mediaDuration,
                                    sourceStartOffset |-> 0] >>]
                        ELSE tracks[i]]
             ELSE UNCHANGED <<masterAudioBuffer, beatGrid, introSkipFrames,
                              duration, tracks>>
          /\ clips' = Append(clips, newClip)
          /\ Ran("import", clipId, 0, 0, 0)
    /\ UNCHANGED <<nonEditorVars, call, ret, selectedSegmentId, selectedMediaClipId,
                   mediaClipBars, swapMode, swapSourceId>>

(* App.tsx: handleDeleteClip *)
SegmentsWithoutClip_all(segments, id) == segments

\* t.segments.filter(s => s.sourceClipId !== id)
SegmentsWithoutClip(segments, id) ==
    LET KeepSeg(seg) == seg.sourceClipId # id
    IN SelectSeq(segments, KeepSeg)

handleDeleteClip(id) ==
    /\ id \in ClipIds(clips)
    /\ LET targetClip == ClipById(clips, id)
           hasRemainingAudio ==
               \E i \in 1..Len(clips) : clips[i].id # id /\ clips[i].type = "audio"
           KeepClip(c) == c.id # id
       IN /\ clips' = SelectSeq(clips, KeepClip)
          /\ tracks' = [i \in 1..Len(tracks) |->
                          [tracks[i] EXCEPT
                             !.segments = SegmentsWithoutClip(tracks[i].segments, id)]]
          /\ IF targetClip.type = "audio" /\ ~hasRemainingAudio
             THEN /\ masterAudioBuffer' = FALSE
                  /\ beatGrid' = EmptyBeatGrid
                  /\ introSkipFrames' = 0
                  /\ duration' = DefaultDuration
             ELSE UNCHANGED <<masterAudioBuffer, beatGrid, introSkipFrames, duration>>
    /\ selectedMediaClipId' = IF selectedMediaClipId = id THEN null ELSE selectedMediaClipId
    /\ Ran("deleteClip", id, 0, Len(FlatSegments(tracks)), 0)
    /\ proxyRuns' = CancelledRuns(proxyRuns, {proxyJobsRef[id], reverseProxyJobsRef[id]})
    /\ proxyJobsRef' = [proxyJobsRef EXCEPT ![id] = NoJob]
    /\ reverseProxyJobsRef' = [reverseProxyJobsRef EXCEPT ![id] = NoJob]
    /\ proxyPaths' = [proxyPaths EXCEPT ![id] = NoPaths]
    /\ UNCHANGED <<transportVars, jobVars, exportVars, call, ret, selectedSegmentId,
                   mediaClipBars, swapMode, swapSourceId>>

----------------------------------------------------------------------------
(* App.tsx: selection and swap *)

handleSwapSegments(sourceId, targetId) ==
    /\ tracks' = SwappedTracks(tracks, sourceId, targetId)
    /\ swapMode' = FALSE
    /\ swapSourceId' = null
    /\ selectedSegmentId' = targetId

\* what the history keeps of a call handleSelectSegment(id): whether it went
\* on to handleSwapSegments, the swap source and that segment's offset
SelectHist(id, swapped) ==
    LET sourcePresent == swapSourceId \in SegmentIds(FlatSegments(tracks))
    IN Ran("selectSegment", id, IF swapped THEN 1 ELSE 0, swapSourceId,
           IF sourcePresent
           THEN SegmentById(FlatSegments(tracks), swapSourceId).sourceStartOffset
           ELSE 0)

handleSelectSegment_noTypeCheck(id) ==
    /\ id \in SegmentIds(FlatSegments(tracks))
    /\ IF swapMode /\ swapSourceId # null /\ id # swapSourceId
       THEN /\ handleSwapSegments(swapSourceId, id)
            /\ SelectHist(id, TRUE)
            /\ UNCHANGED selectedMediaClipId
       ELSE /\ selectedSegmentId' = id
            /\ selectedMediaClipId' = null
            /\ SelectHist(id, FALSE)
            /\ UNCHANGED <<tracks, swapMode, swapSourceId>>
    /\ UNCHANGED <<nonEditorVars, call, ret, clips, beatGrid, introSkipFrames, duration,
                   mediaClipBars, masterAudioBuffer>>

handleSelectSegment(id) ==
    /\ id \in SegmentIds(FlatSegments(tracks))
    /\ IF swapMode /\ swapSourceId # null /\ id # swapSourceId
       THEN LET si == TrackIndexOf(tracks, swapSourceId)
                ti == TrackIndexOf(tracks, id)
            IN IF si # 0 /\ ti # 0 /\ tracks[si].type = tracks[ti].type
               THEN /\ handleSwapSegments(swapSourceId, id)
                    /\ SelectHist(id, TRUE)
                    /\ UNCHANGED selectedMediaClipId
               ELSE /\ SelectHist(id, FALSE)
                    /\ UNCHANGED <<tracks, swapMode, swapSourceId,
                                   selectedSegmentId, selectedMediaClipId>>
       ELSE /\ selectedSegmentId' = id
            /\ selectedMediaClipId' = null
            /\ SelectHist(id, FALSE)
            /\ UNCHANGED <<tracks, swapMode, swapSourceId>>
    /\ UNCHANGED <<nonEditorVars, call, ret, clips, beatGrid, introSkipFrames, duration,
                   mediaClipBars, masterAudioBuffer>>

handleSelectMediaClip(id) ==
    /\ id \in ClipIds(clips)
    /\ selectedMediaClipId' = id
    /\ selectedSegmentId' = null
    /\ swapMode' = FALSE
    /\ swapSourceId' = null
    /\ Ran("selectMediaClip", id, 0, 0, 0)
    /\ UNCHANGED <<nonEditorVars, call, ret, clips, tracks, beatGrid, introSkipFrames, duration,
                   mediaClipBars, masterAudioBuffer>>

----------------------------------------------------------------------------
(* components/Inspector.tsx: what the inspector shows *)

\* const segment = tracks.flatMap(...).find(s => s.id === selectedSegmentId) and
\* its sourceClip both exist: the segment panel is rendered
InspectorShowsSegment ==
    /\ selectedSegmentId \in SegmentIds(FlatSegments(tracks))
    /\ SegmentById(FlatSegments(tracks), selectedSegmentId).sourceClipId \in ClipIds(clips)

InspectorSegment == SegmentById(FlatSegments(tracks), selectedSegmentId)

InspectorSourceClip == ClipById(clips, InspectorSegment.sourceClipId)

\* the media clip panel with its Add to Timeline button is rendered
InspectorShowsVideoClip ==
    /\ ~InspectorShowsSegment
    /\ selectedMediaClipId \in ClipIds(clips)
    /\ ClipById(clips, selectedMediaClipId).type = "video"

\* barLengthSec * 1000 with barLengthSec = (60 / beatGrid.bpm) * BEATS_PER_BAR
BarDurationMs == SecondsPerBeat(beatGrid.bpm) * BEATS_PER_BAR

(* App.tsx: handleToggleSwapMode, from the inspector's Swap button *)
handleToggleSwapMode ==
    /\ InspectorShowsSegment
    /\ LET segmentId == InspectorSegment.id
       IN IF swapMode /\ swapSourceId = segmentId
          THEN swapMode' = FALSE /\ swapSourceId' = null
          ELSE swapMode' = TRUE /\ swapSourceId' = segmentId
    /\ Ran("toggleSwapMode", selectedSegmentId, 0, 0, 0)
    /\ UNCHANGED <<nonEditorVars, call, ret, clips, tracks, beatGrid, introSkipFrames, duration,
                   selectedSegmentId, selectedMediaClipId, mediaClipBars,
                   masterAudioBuffer>>

(* App.tsx: handleRemoveSegment *)
handleRemoveSegment(id) ==
    /\ LET present == id \in SegmentIds(FlatSegments(tracks))
           target == SegmentById(FlatSegments(tracks), id)
       IN /\ tracks' = RemovedTracks(tracks, id)
          /\ selectedSegmentId' = IF selectedSegmentId = id
                                  THEN NextSelectionAfterRemove(tracks, id)
                                  ELSE selectedSegmentId
          /\ IF swapSourceId = id
             THEN swapMode' = FALSE /\ swapSourceId' = null
             ELSE UNCHANGED <<swapMode, swapSourceId>>
          /\ Ran("remove", id, IF selectedSegmentId = id THEN 1 ELSE 0,
                 IF present THEN target.timelineStart ELSE 0,
                 IF present THEN target.duration ELSE 0)
    /\ UNCHANGED <<nonEditorVars, call, ret, clips, beatGrid, introSkipFrames, duration,
                   selectedMediaClipId, mediaClipBars, masterAudioBuffer>>

(* components/Inspector.tsx: the Remove button of the segment panel *)
onRemoveSegment ==
    /\ InspectorShowsSegment
    /\ handleRemoveSegment(InspectorSegment.id)

----------------------------------------------------------------------------
(* components/Inspector.tsx: updateDurationMs and the slip slider *)

\* clampedDuration of updateDurationMs
ClampedDuration_noMinimum(clipDuration, barDurationMs, nextDurationMs) ==
    LET maxBarsDuration == IF barDurationMs > 0 THEN 32 * barDurationMs ELSE 120000
        maxDuration == Max(Max(1, clipDuration), maxBarsDuration)
    IN Min(maxDuration, nextDurationMs)

ClampedDuration(clipDuration, barDurationMs, nextDurationMs) ==
    LET minDuration == 1
        maxBarsDuration == IF barDurationMs > 0 THEN 32 * barDurationMs ELSE 120000
        maxDuration == Max(Max(minDuration, clipDuration), maxBarsDuration)
    IN Min(maxDuration, Max(minDuration, nextDurationMs))

\* clampedOffset of updateDurationMs
ClampedOffset_keep(clipDuration, clampedDuration, sourceStartOffset) ==
    sourceStartOffset

ClampedOffset(clipDuration, clampedDuration, sourceStartOffset) ==
    LET maxOffset == Max(0, clipDuration - clampedDuration)
    IN Min(sourceStartOffset, maxOffset)

\* nextDurationMs is [finite |-> BOOLEAN, ms |-> Int]: Number(e.target.value)
updateDurationMs(nextDurationMs) ==
    /\ InspectorShowsSegment
    /\ IF ~nextDurationMs.finite
       THEN /\ UNCHANGED tracks
            /\ Ran("resizeRejected", selectedSegmentId, 0, 0, 0)
       ELSE LET segment == InspectorSegment
                sourceClip == InspectorSourceClip
                clampedDuration ==
                    ClampedDuration(sourceClip.duration, BarDurationMs, nextDurationMs.ms)
                clampedOffset ==
                    ClampedOffset(sourceClip.duration, clampedDuration,
                                  segment.sourceStartOffset)
            IN /\ tracks' = UpdatedTracks(tracks, segment.id,
                                [duration |-> clampedDuration,
                                 sourceStartOffset |-> clampedOffset])
               /\ Ran("resize", segment.id, nextDurationMs.ms, segment.duration,
                      segment.sourceStartOffset)
    /\ UNCHANGED <<nonEditorVars, call, ret, clips, beatGrid, introSkipFrames, duration,
                   selectedSegmentId, selectedMediaClipId, mediaClipBars,
                   swapMode, swapSourceId, masterAudioBuffer>>

\* <input type="range" min={0} max={sourceClip.duration - segment.duration}>:
\* the values the slider can report (a maximum below the minimum leaves only
\* the minimum)
SliderValues ==
    IF ~InspectorShowsSegment THEN {}
    ELSE LET sliderMax == InspectorSourceClip.duration - InspectorSegment.duration
         IN { v \in SlipChoices \cup {Max(0, sliderMax)} :
                  0 <= v /\ v <= Max(0, sliderMax) }

slipSegment(value) ==
    /\ InspectorShowsSegment
    /\ InspectorSourceClip.type = "video"
    /\ tracks' = UpdatedTracks(tracks, InspectorSegment.id, [sourceStartOffset |-> value])
    /\ Ran("slip", selectedSegmentId, value, InspectorSegment.sourceStartOffset, 0)
    /\ UNCHANGED <<nonEditorVars, call, ret, clips, beatGrid, introSkipFrames, duration,
                   selectedSegmentId, selectedMediaClipId, mediaClipBars,
                   swapMode, swapSourceId, masterAudioBuffer>>

----------------------------------------------------------------------------
(* App.tsx: handleAddClipToTimeline and setMediaClipBars, from the inspector *)

setMediaClipBars(bars) ==
    /\ InspectorShowsVideoClip
    /\ mediaClipBars' = bars
    /\ Ran("setMediaClipBars", null, bars, 0, 0)
    /\ UNCHANGED <<nonEditorVars, call, ret, clips, tracks, beatGrid, introSkipFrames, duration,
                   selectedSegmentId, selectedMediaClipId, swapMode, swapSourceId,
                   masterAudioBuffer>>

\* durationMs of handleAddClipToTimeline; bars in quarter bars
AddedDuration(clipDuration, barDurationMs, requestedBars) ==
    LET clampedBars == Min(64, Max(1, requestedBars))
        desiredDuration == IF barDurationMs > 0
                           THEN (clampedBars * barDurationMs) \div 4
                           ELSE clipDuration
    IN Min(clipDuration, Max(1, desiredDuration))

\* the updater given to setTracks
AddedTracks_atZero(prev, nextSegment, introSkipMs) ==
    [i \in 1..Len(prev) |->
        IF prev[i].type # "video" THEN prev[i]
        ELSE [prev[i] EXCEPT !.segments =
                 Append(prev[i].segments, [nextSegment EXCEPT !.timelineStart = 0])]]

RECURSIVE LastEnd(_)
LastEnd(segments) ==
    IF segments = <<>> THEN 0
    ELSE Max(LastEnd(Tail(segments)),
             Head(segments).timelineStart + Head(segments).duration)

AddedTracks(prev, nextSegment, introSkipMs) ==
    [i \in 1..Len(prev) |->
        IF prev[i].type # "video" THEN prev[i]
        ELSE LET timelineStart == IF Len(prev[i].segments) > 0
                                  THEN LastEnd(prev[i].segments)
                                  ELSE introSkipMs
             IN [prev[i] EXCEPT !.segments =
                    Append(prev[i].segments,
                           [nextSegment EXCEPT !.timelineStart = timelineStart])]]

handleAddClipToTimeline ==
    /\ InspectorShowsVideoClip
    /\ FreeSegIds("none") # <<>>
    /\ LET clip == ClipById(clips, selectedMediaClipId)
           currentIndex == CHOOSE i \in 1..Len(clips) : clips[i].id = clip.id
           laterVideo == { i \in (currentIndex + 1)..Len(clips) : clips[i].type = "video" }
           nextVideoClipId ==
               IF laterVideo = {} THEN null
               ELSE clips[CHOOSE i \in laterVideo : \A j \in laterVideo : i <= j].id
           durationMs == AddedDuration(clip.duration, BarDurationMs, mediaClipBars)
           introSkipMs == (Max(0, introSkipFrames) * 1000) \div DEFAULT_FPS
           segmentId == Head(FreeSegIds("none"))
           nextSegment == [id |-> segmentId, sourceClipId |-> clip.id,
                           timelineStart |-> 0, duration |-> durationMs,
                           sourceStartOffset |-> 0]
       IN /\ tracks' = AddedTracks(tracks, nextSegment, introSkipMs)
          /\ IF nextVideoClipId # null
             THEN /\ selectedMediaClipId' = nextVideoClipId
                  /\ selectedSegmentId' = null
                  /\ swapMode' = FALSE
                  /\ swapSourceId' = null
             ELSE /\ selectedSegmentId' = segmentId
                  /\ selectedMediaClipId' = null
                  /\ UNCHANGED <<swapMode, swapSourceId>>
          /\ Ran("add", segmentId, 0, 0, 0)
    /\ UNCHANGED <<nonEditorVars, call, ret, clips, beatGrid, introSkipFrames, duration,
                   mediaClipBars, masterAudioBuffer>>

----------------------------------------------------------------------------
(* App.tsx: applyAutoSyncSettings; bars in quarter bars *)

\* rebuilt.beats.map(beat => Math.max(0, beat + skip)), deduplicated and sorted
ShiftedGrid(rebuilt, introSkipSec) ==
    LET Shift(beat) == Max(0, beat + introSkipSec)
    IN [bpm |-> rebuilt.bpm,
        offset |-> rebuilt.offset + introSkipSec,
        beats |-> SortNumeric(Dedupe(MapSeq(Shift, rebuilt.beats)))]

IsVideoClip(c) == c.type = "video"

ClampedBars_noCeiling(autoSyncBars) ==
    IF autoSyncBars.kind = "NaN" THEN [finite |-> FALSE, quarters |-> 0]
    ELSE IF autoSyncBars.kind = "Infinity" THEN [finite |-> FALSE, quarters |-> 0]
    ELSE IF autoSyncBars.kind = "-Infinity" THEN [finite |-> TRUE, quarters |-> 4]
    ELSE [finite |-> TRUE,
          quarters |-> 4 * Max(1, RoundQuarters(autoSyncBars.quarters))]

\* clampedBars: Math.min(8, Math.max(1, Math.round(Number(autoSyncBars)))),
\* which is NaN for NaN
ClampedBars(autoSyncBars) ==
    IF autoSyncBars.kind = "NaN" THEN [finite |-> FALSE, quarters |-> 0]
    ELSE IF autoSyncBars.kind = "Infinity" THEN [finite |-> TRUE, quarters |-> 32]
    ELSE IF autoSyncBars.kind = "-Infinity" THEN [finite |-> TRUE, quarters |-> 4]
    ELSE [finite |-> TRUE,
          quarters |-> 4 * Min(8, Max(1, RoundQuarters(autoSyncBars.quarters)))]

applyAutoSyncSettings(autoSyncBpm, autoSyncBars, autoSyncIntroSkipFrames) ==
    /\ steps < MaxSteps
    /\ LET videoClips == SelectSeq(clips, IsVideoClip)
           clampedBpm == Min(300, Max(30, autoSyncBpm))
           clampedBars == ClampedBars([kind |-> "finite", quarters |-> autoSyncBars])
           nextIntroSkipFrames == autoSyncIntroSkipFrames
           nextIntroSkipSec == (nextIntroSkipFrames * 1000) \div DEFAULT_FPS
           free == FreeSegIds("video")
           WithUuid(seg) == [seg EXCEPT !.id = free[seg.id]]
       IN IF Len(videoClips) = 0
          THEN /\ UNCHANGED <<beatGrid, introSkipFrames, tracks>>
               /\ Ran("autoSyncRejected", null, 0, 0, 0)
          ELSE \E nextBeatGrid \in
                     { ShiftedGrid(buildBeatGrid(clampedBpm, 0, duration), nextIntroSkipSec) } :
                 IF Len(nextBeatGrid.beats) = 0
                 THEN /\ UNCHANGED <<beatGrid, introSkipFrames, tracks>>
                      /\ Ran("autoSyncRejected", null, 0, 0, 0)
                 ELSE \E newSegments \in
                            { autoSyncClips(videoClips, nextBeatGrid, duration,
                                            clampedBars) } :
                        /\ Len(newSegments) <= Len(free)
                        /\ beatGrid' = nextBeatGrid
                        /\ introSkipFrames' = nextIntroSkipFrames
                        /\ tracks' = [i \in 1..Len(tracks) |->
                                        IF tracks[i].type = "video"
                                        THEN [tracks[i] EXCEPT !.segments = MapSeq(WithUuid, newSegments)]
                                        ELSE tracks[i]]
                        /\ Ran("autoSync", null, 0, 0, 0)
    /\ UNCHANGED <<nonEditorVars, call, ret, clips, duration, selectedSegmentId,
                   selectedMediaClipId, mediaClipBars, swapMode, swapSourceId,
                   masterAudioBuffer>>

----------------------------------------------------------------------------
(* The editor: every handler, with the inputs the model draws *)

Next ==
    \/ \E file \in VideoFileChoices :
           handleImport(FALSE, file[1], file[2], 120, 0)
    \/ \E d \in AudioDurationChoices, bpm \in AnalyzedBpmChoices,
          anchor \in AnchorBeatChoices :
           handleImport(TRUE, <<2, 1>>, d, bpm, anchor)
    \/ \E id \in 1..MaxClips : handleDeleteClip(id)
    \/ \E id \in 1..MaxClips : handleSelectMediaClip(id)
    \/ \E id \in 1..MaxSegs : handleSelectSegment(id)
    \/ handleToggleSwapMode
    \/ onRemoveSegment
    \/ \E ms \in ResizeChoices : updateDurationMs([finite |-> TRUE, ms |-> ms])
    \/ updateDurationMs([finite |-> FALSE, ms |-> 0])
    \/ \E v \in SliderValues : slipSegment(v)
    \/ \E bars \in MediaClipBarsChoices : setMediaClipBars(bars)
    \/ handleAddClipToTimeline
    \/ \E bpm \in AutoSyncBpmChoices, bars \in AutoSyncBarsChoices,
          frames \in AutoSyncIntroSkipChoices :
           applyAutoSyncSettings(bpm, bars, frames)

Spec == Init /\ [][Next]_vars

----------------------------------------------------------------------------
(* App.tsx: the transport.  The clock advances between animation frames *)

TickChoices == {4000, 26000}
SeekChoices == {0, 3000, 40000}

\* the body of loop, run at time nowMs by the closure that captured the
\* total duration capturedDuration
loop(nowMs, startTime, capturedDuration) ==
    LET newTime == nowMs - startTime
    IN IF newTime >= capturedDuration
       THEN [newTime |-> 0, startTime |-> nowMs]
       ELSE [newTime |-> newTime, startTime |-> startTime]

\* play(): the closure is made in the render play() is called in and runs once
\* at once
play ==
    LET r == loop(now, now - playbackState.currentTime, duration)
    IN /\ startTimeRef' = r.startTime
       /\ playbackState' = [isPlaying |-> TRUE, currentTime |-> r.newTime]
       /\ animationFrameRef' = [scheduled |-> TRUE, duration |-> duration]

pause ==
    /\ animationFrameRef' = NoFrame
    /\ playbackState' = [playbackState EXCEPT !.isPlaying = FALSE]
    /\ UNCHANGED startTimeRef

togglePlay ==
    /\ IF playbackState.isPlaying THEN pause ELSE play
    /\ Ran("togglePlay", null, 0, 0, 0)
    /\ UNCHANGED <<call, ret, clips, tracks, beatGrid, introSkipFrames, duration,
                   selectedSegmentId, selectedMediaClipId, mediaClipBars,
                   swapMode, swapSourceId, masterAudioBuffer, now, jobVars, exportVars,
                   proxyVars>>

\* an animation frame: the scheduled closure runs and schedules itself again
tick(elapsed) ==
    /\ animationFrameRef.scheduled
    /\ now' = now + elapsed
    /\ LET r == loop(now + elapsed, startTimeRef, animationFrameRef.duration)
       IN /\ startTimeRef' = r.startTime
          /\ playbackState' = [playbackState EXCEPT !.currentTime = r.newTime]
    /\ Ran("tick", null, elapsed, 0, 0)
    /\ UNCHANGED <<call, ret, clips, tracks, beatGrid, introSkipFrames, duration,
                   selectedSegmentId, selectedMediaClipId, mediaClipBars,
                   swapMode, swapSourceId, masterAudioBuffer, animationFrameRef,
                   jobVars, exportVars,
                   proxyVars>>

handleSeek(timeMs) ==
    /\ animationFrameRef' = IF playbackState.isPlaying THEN NoFrame ELSE animationFrameRef
    /\ playbackState' = [isPlaying |-> FALSE, currentTime |-> timeMs]
    /\ Ran("seek", null, timeMs, 0, 0)
    /\ UNCHANGED <<call, ret, clips, tracks, beatGrid, introSkipFrames, duration,
                   selectedSegmentId, selectedMediaClipId, mediaClipBars,
                   swapMode, swapSourceId, masterAudioBuffer, startTimeRef, now,
                   jobVars, exportVars,
                   proxyVars>>

handleNewProject ==
    /\ clips' = <<>>
    /\ tracks' = InitialTracks
    /\ beatGrid' = EmptyBeatGrid
    /\ introSkipFrames' = 0
    /\ duration' = DefaultDuration
    /\ selectedSegmentId' = null
    /\ selectedMediaClipId' = null
    /\ swapMode' = FALSE
    /\ swapSourceId' = null
    /\ masterAudioBuffer' = FALSE
    /\ animationFrameRef' = IF playbackState.isPlaying THEN NoFrame ELSE animationFrameRef
    /\ playbackState' = [isPlaying |-> FALSE, currentTime |-> 0]
    /\ Ran("newProject", null, 0, 0, 0)
    /\ proxyRuns' = CancelledRuns(proxyRuns,
                                  { proxyJobsRef[c] : c \in 1..MaxClips }
                                    \cup { reverseProxyJobsRef[c] : c \in 1..MaxClips })
    /\ proxyJobsRef' = NoProxyJobs
    /\ reverseProxyJobsRef' = NoProxyJobs
    /\ proxyPaths' = NoProxyPaths
    /\ UNCHANGED <<call, ret, mediaClipBars, startTimeRef, now, jobVars, exportVars>>

(* App.tsx: applyProjectPayload, the audio of the project decoding *)

\* saved projects: with and without a finite duration, with and without audio
ProjectAudioClip == [id |-> 1, duration |-> 5000, name |-> <<2, 1>>, type |-> "audio"]
ProjectPayloadChoices ==
    { [clips |-> cs, tracks |-> InitialTracks, beatGrid |-> EmptyBeatGrid,
       introSkipFrames |-> 0, duration |-> d] :
        cs \in { <<>>, <<ProjectAudioClip>> },
        d \in { [finite |-> TRUE, ms |-> 2000], [finite |-> FALSE, ms |-> 0] } }

IsAudioClip(c) == c.type = "audio"

applyProjectPayload(payload) ==
    LET audio == SelectSeq(payload.clips, IsAudioClip)
    IN /\ clips' = payload.clips
       /\ tracks' = payload.tracks
       /\ beatGrid' = payload.beatGrid
       /\ introSkipFrames' = payload.introSkipFrames
       /\ duration' = IF payload.duration.finite /\ payload.duration.ms > 0
                      THEN payload.duration.ms
                      ELSE IF audio # <<>> THEN audio[1].duration
                      ELSE IF payload.duration.finite THEN payload.duration.ms
                      ELSE DefaultDuration
       /\ selectedSegmentId' = null
       /\ swapMode' = FALSE
       /\ swapSourceId' = null
       /\ playbackState' = [isPlaying |-> FALSE, currentTime |-> 0]
       /\ masterAudioBuffer' = (audio # <<>>)
       /\ Ran("loadProject", null, 0, 0, 0)
       /\ proxyPaths' = NoProxyPaths
       /\ UNCHANGED <<call, ret, selectedMediaClipId, mediaClipBars,
                      startTimeRef, animationFrameRef, now, jobVars, exportVars,
                      proxyJobsRef, reverseProxyJobsRef, proxyRuns>>

NextPlay ==
    \/ togglePlay
    \/ \E elapsed \in TickChoices : tick(elapsed)
    \/ \E timeMs \in SeekChoices : handleSeek(timeMs)
    \/ \E d \in AudioDurationChoices, bpm \in AnalyzedBpmChoices,
          anchor \in AnchorBeatChoices :
           handleImport(TRUE, <<2, 1>>, d, bpm, anchor)
    \/ \E id \in 1..MaxClips : handleDeleteClip(id)
    \/ \E payload \in ProjectPayloadChoices : applyProjectPayload(payload)
    \/ handleNewProject

SpecPlay == Init /\ [][NextPlay]_vars

----------------------------------------------------------------------------
(* buildBeatGrid on its own: the arguments are drawn, the call returns *)

GridCalls ==
    [fn : {"buildBeatGrid"}, bpm : BpmChoices, offset : OffsetChoices,
     durationSec : DurationSecChoices]

InitGrid ==
    /\ InitApp
    /\ call \in GridCalls
    /\ ret = NoRet

CallBuildBeatGrid ==
    /\ call.fn = "buildBeatGrid"
    /\ ~ret.done
    /\ ret' = [done |-> TRUE,
               value |-> buildBeatGrid(call.bpm, call.offset, call.durationSec)]
    /\ UNCHANGED <<call, appVars>>

NextGrid == CallBuildBeatGrid

SpecGrid == InitGrid /\ [][NextGrid]_vars

----------------------------------------------------------------------------
(* autoSyncClips on its own *)

BeatTimeChoices == {0, 50, 500, 1000, 1500, 2000, 2500}

SyncClipA == [id |-> 1, name |-> <<1, 10>>, duration |-> 1500, type |-> "video"]
SyncClipB == [id |-> 2, name |-> <<1, 2>>, duration |-> 9000, type |-> "video"]
SyncClipLists == { <<>>, <<SyncClipA>>, <<SyncClipA, SyncClipB>> }

\* every strictly increasing beat list over BeatTimeChoices, up to MaxGridBeats long
SyncBeatLists ==
    { SetToSortedSeq(S) : S \in { T \in SUBSET BeatTimeChoices : Cardinality(T) <= MaxGridBeats } }

\* the grids buildBeatGrid gives at 120 BPM: 9 and 13 beats, 0.5 s apart
SyncBuiltGrids ==
    { buildBeatGrid(120, offset, durationSec) :
        offset \in {-700, 0}, durationSec \in {4500, 6500} }

SyncCalls ==
    [fn : {"autoSyncClips"},
     clips : SyncClipLists,
     grid : [bpm : {120, 300}, offset : {-700, 0}, beats : SyncBeatLists]
                \cup SyncBuiltGrids,
     totalDuration : {1200, 30000},
     preferredBars : { [finite |-> FALSE, quarters |-> 0],
                       [finite |-> TRUE, quarters |-> 4],
                       [finite |-> TRUE, quarters |-> 8] }]

InitSync ==
    /\ InitApp
    /\ call \in SyncCalls
    /\ ret = NoRet

CallAutoSyncClips ==
    /\ call.fn = "autoSyncClips"
    /\ ~ret.done
    /\ ret' = [done |-> TRUE,
               value |-> autoSyncClips(call.clips, call.grid, call.totalDuration,
                                       call.preferredBars)]
    /\ UNCHANGED <<call, appVars>>

NextSync == CallAutoSyncClips

SpecSync == InitSync /\ [][NextSync]_vars

----------------------------------------------------------------------------
(* PreviewPlayer: the sync effect's source seek time.  A time that is not a
   whole number of ms is held as a fraction [num, den] of ms; a playback rate
   is held in hundredths, [finite |-> FALSE] standing for a missing or
   non-finite one *)

\* the segment the effect finds under the playhead
IsCurrentSegment(seg, currentTime) ==
    currentTime >= seg.timelineStart /\ currentTime < seg.timelineStart + seg.duration

OffsetInSegment(seg, currentTime) ==
    Max(0, Min(seg.duration, currentTime - seg.timelineStart))

\* Math.max(0.05, playbackRate), or 1
RequestedRate(seg) ==
    IF seg.playbackRate.finite THEN Max(5, seg.playbackRate.hundredths) ELSE 100

AvailableDuration(seg, clip) == Max(0, clip.duration - seg.sourceStartOffset)

\* maxRate = availableDuration / duration is below the requested rate
RateIsCapped(seg, clip) ==
    /\ AvailableDuration(seg, clip) > 0
    /\ seg.duration > 0
    /\ AvailableDuration(seg, clip) * 100 < RequestedRate(seg) * seg.duration

\* sourceStartOffset + effectiveOffset * effectiveRate, in ms
targetSourceTime(seg, clip, currentTime) ==
    LET offsetInSegment == OffsetInSegment(seg, currentTime)
        effectiveOffset == IF seg.reverse THEN seg.duration - offsetInSegment
                           ELSE offsetInSegment
    IN IF RateIsCapped(seg, clip)
       THEN [num |-> seg.sourceStartOffset * seg.duration
                       + effectiveOffset * AvailableDuration(seg, clip),
             den |-> seg.duration]
       ELSE [num |-> seg.sourceStartOffset * 100
                       + effectiveOffset * RequestedRate(seg),
             den |-> 100]

\* player.duration of the element that plays the clip's file: the duration
\* getMediaDuration read from the same file
PlayerDuration(clip) == [finite |-> TRUE, ms |-> clip.duration]

SeekEpsilonMs == 50

seekToTarget_noClamp(target, playerDuration) == target

\* clampedTarget: Math.min(target, Math.max(0, durationSec - 0.05))
seekToTarget(target, playerDuration) ==
    IF playerDuration.finite /\ playerDuration.ms > 0
    THEN LET limit == Max(0, playerDuration.ms - SeekEpsilonMs)
         IN IF target.num > limit * target.den
            THEN [num |-> limit, den |-> 1]
            ELSE target
    ELSE target

SeekStartChoices == {0, 1000}
SeekDurationChoices == {1, 500, 2000, 12000}
SeekOffsetChoices == {0, 700, 8990, 9500}
SeekRateChoices ==
    { [finite |-> FALSE, hundredths |-> 0] } \cup
    { [finite |-> TRUE, hundredths |-> h] : h \in {1, 5, 100, 2000} }
SeekClipDurationChoices == {30, 1500, 9000}

SeekSegments ==
    [timelineStart : SeekStartChoices, duration : SeekDurationChoices,
     sourceStartOffset : SeekOffsetChoices, reverse : BOOLEAN,
     playbackRate : SeekRateChoices]

\* playhead times inside a segment: its first, second, middle and last ms
SeekTimes(seg) ==
    { t \in { seg.timelineStart, seg.timelineStart + 1,
              seg.timelineStart + seg.duration \div 2,
              seg.timelineStart + seg.duration - 1 } : IsCurrentSegment(seg, t) }

SeekCalls ==
    UNION { { [fn |-> "seekToTarget", segment |-> seg, currentTime |-> t,
               clip |-> [id |-> 1, duration |-> d]] : t \in SeekTimes(seg) } :
            seg \in SeekSegments, d \in SeekClipDurationChoices }

InitSeek ==
    /\ InitApp
    /\ call \in SeekCalls
    /\ ret = NoRet

CallSeekToTarget ==
    /\ call.fn = "seekToTarget"
    /\ ~ret.done
    /\ ret' = [done |-> TRUE,
               value |-> seekToTarget(
                             targetSourceTime(call.segment, call.clip, call.currentTime),
                             PlayerDuration(call.clip))]
    /\ UNCHANGED <<call, appVars>>

NextSeek == CallSeekToTarget

SpecSeek == InitSeek /\ [][NextSeek]_vars

----------------------------------------------------------------------------
(* PreviewPlayer: getFadeAlpha.  An alpha is a fraction [num, den], den > 0;
   a fade the segment does not carry is [present |-> FALSE] *)

FracLeq(a, b) == a.num * b.den <= b.num * a.den
FracMin(a, b) == IF FracLeq(a, b) THEN a ELSE b
FracMax(a, b) == IF FracLeq(a, b) THEN b ELSE a
FracZero == [num |-> 0, den |-> 1]
FracOne == [num |-> 1, den |-> 1]

defaultFadeIn == [present |-> TRUE, enabled |-> FALSE, startMs |-> 0, endMs |-> 500]
defaultFadeOut == [present |-> TRUE, enabled |-> FALSE, startMs |-> -500, endMs |-> 0]

\* fade ?? defaultFade
FadeOrDefault(fade, default) == IF fade.present THEN fade ELSE default

FadeInAlpha_fromZero(fadeIn, localTimeMs) ==
    IF ~fadeIn.enabled THEN FracOne
    ELSE LET end == Max(Max(0, fadeIn.startMs), fadeIn.endMs)
         IN IF end <= 0 \/ localTimeMs >= end THEN FracOne
            ELSE IF localTimeMs <= 0 THEN FracZero
            ELSE [num |-> localTimeMs, den |-> end]

\* alpha after the fade-in block
FadeInAlpha(fadeIn, localTimeMs) ==
    IF ~fadeIn.enabled THEN FracOne
    ELSE LET start == Max(0, fadeIn.startMs)
             end == Max(start, fadeIn.endMs)
         IN IF end <= start
            THEN (IF localTimeMs >= end THEN FracOne ELSE FracZero)
            ELSE IF localTimeMs <= start THEN FracZero
            ELSE IF localTimeMs >= end THEN FracOne
            ELSE [num |-> localTimeMs - start, den |-> end - start]

\* alpha after the fade-out block, from the alpha before it
FadeOutAlpha(alpha, segDuration, fadeOut, localTimeMs) ==
    IF ~fadeOut.enabled THEN alpha
    ELSE LET start == segDuration + fadeOut.startMs
             end == segDuration + fadeOut.endMs
             clampedStart == Max(0, Min(segDuration, start))
             clampedEnd == Max(0, Min(segDuration, end))
             minEdge == Min(clampedStart, clampedEnd)
             maxEdge == Max(clampedStart, clampedEnd)
         IN IF maxEdge <= minEdge
            THEN (IF localTimeMs >= maxEdge THEN FracMin(alpha, FracZero) ELSE alpha)
            ELSE IF localTimeMs <= minEdge THEN FracMin(alpha, FracOne)
            ELSE IF localTimeMs >= maxEdge THEN FracMin(alpha, FracZero)
            ELSE FracMin(alpha, [num |-> maxEdge - localTimeMs,
                                 den |-> maxEdge - minEdge])

getFadeAlpha(segment, localTimeMs) ==
    LET fadeIn == FadeOrDefault(segment.fadeIn, defaultFadeIn)
        fadeOut == FadeOrDefault(segment.fadeOut, defaultFadeOut)
        alpha == FadeOutAlpha(FadeInAlpha(fadeIn, localTimeMs), segment.duration,
                              fadeOut, localTimeMs)
    IN FracMax(FracZero, FracMin(FracOne, alpha))

FadeInChoices ==
    { [present |-> FALSE] } \cup
    [present : {TRUE}, enabled : BOOLEAN, startMs : {-500, 0, 200},
     endMs : {-100, 0, 500}]
FadeOutChoices ==
    { [present |-> FALSE] } \cup
    [present : {TRUE}, enabled : BOOLEAN, startMs : {-500, 0}, endMs : {-200, 0}]
FadeDurationChoices == {600, 2000}
FadeLocalTimeChoices == {0, 100, 200, 250, 499, 500, 599, 1500}

\* the render loop passes currentTime - timelineStart of the segment under
\* the playhead
FadeLocalTimes(segment) == { t \in FadeLocalTimeChoices : t < segment.duration }

FadeCalls ==
    UNION { { [fn |-> "getFadeAlpha", segment |-> seg, localTimeMs |-> t] :
              t \in FadeLocalTimes(seg) } :
            seg \in [duration : FadeDurationChoices, fadeIn : FadeInChoices,
                     fadeOut : FadeOutChoices] }

InitFade ==
    /\ InitApp
    /\ call \in FadeCalls
    /\ ret = NoRet

CallGetFadeAlpha ==
    /\ call.fn = "getFadeAlpha"
    /\ ~ret.done
    /\ ret' = [done |-> TRUE, value |-> getFadeAlpha(call.segment, call.localTimeMs)]
    /\ UNCHANGED <<call, appVars>>

NextFade == CallGetFadeAlpha

SpecFade == InitFade /\ [][NextFade]_vars

----------------------------------------------------------------------------
(* App.tsx: handleExport, the filter graph and encoder arguments it builds.
   Durations the source holds in seconds are held in ms; a duration that need
   not be a whole number of ms is a fraction [num, den] of ms *)

\* [...videoSegments].sort((a, b) => a.timelineStart - b.timelineStart)
sortedSegments(videoSegments) == SortBy(TimelineStartOf, videoSegments)

\* inputMap.get(segment.sourceClipId) and clips.find(...) find the clip
HasInput(segment, clipList) == segment.sourceClipId \in ClipIds(clipList)

segmentDurationMs(segment) == Max(1, segment.duration)

gapSec_noClamp(segmentStartSec, lastEndSec) == segmentStartSec - lastEndSec

gapSec(segmentStartSec, lastEndSec) == Max(0, segmentStartSec - lastEndSec)

\* one pass of sortedSegments.forEach from index i on, lastEndSec being the
\* value the earlier passes left: the inputs pushed to concatInputs, each with
\* the tpad filler in front of it
RECURSIVE RenderFrom(_, _, _, _)
RenderFrom(sorted, clipList, i, lastEndSec) ==
    IF i > Len(sorted) THEN <<>>
    ELSE IF ~HasInput(sorted[i], clipList)
         THEN RenderFrom(sorted, clipList, i + 1, lastEndSec)
         ELSE LET segment == sorted[i]
                  piece == [idx |-> i,
                            id |-> segment.id,
                            timelineStart |-> segment.timelineStart,
                            segmentDurationSec |-> segmentDurationMs(segment),
                            gapSec |-> gapSec(segment.timelineStart, lastEndSec)]
              IN <<piece>> \o RenderFrom(sorted, clipList, i + 1,
                                  segment.timelineStart + segmentDurationMs(segment))

concatInputs(videoSegments, clipList) ==
    RenderFrom(sortedSegments(videoSegments), clipList, 1, 0)

\* lastEndSec once the loop is over
outputDurationSec(pieces) ==
    IF pieces = <<>> THEN 0
    ELSE pieces[Len(pieces)].timelineStart + pieces[Len(pieces)].segmentDurationSec

\* Math.round of num / den, for num >= 0 and den > 0
RoundDiv(num, den) == (2 * num + den) \div (2 * den)

\* Math.round(-audioOffsetSec * 1000), or 0
audioDelayMs(skipFrames) ==
    IF Min(0, skipFrames) < 0 THEN RoundDiv(-Min(0, skipFrames) * 1000, DEFAULT_FPS)
    ELSE 0

\* 1e-3 of a frame, in thousandths of a frame
FrameEpsilon == 1

\* isNearlyInteger((ms / 1000) * frameRate), for ms >= 0
isNearlyInteger(ms) ==
    LET thousandths == ms * DEFAULT_FPS
        rounded == RoundDiv(thousandths, 1000) * 1000
    IN IF thousandths >= rounded THEN thousandths - rounded <= FrameEpsilon
       ELSE rounded - thousandths <= FrameEpsilon

IsFrameAligned(segment) ==
    isNearlyInteger(segment.timelineStart) /\ isNearlyInteger(segment.duration)

frameAligned(videoSegments) ==
    \A i \in 1..Len(videoSegments) : IsFrameAligned(videoSegments[i])

\* Math.round(outputDurationSec * frameRate) / frameRate
outputDurationFixedSec(outputDuration) ==
    IF outputDuration > 0
    THEN [num |-> RoundDiv(outputDuration * DEFAULT_FPS, 1000) * 1000, den |-> DEFAULT_FPS]
    ELSE FracZero

useCfrExport_always(videoSegments) == TRUE

useCfrExport(videoSegments) == frameAligned(videoSegments)

outputDurationTargetSec(videoSegments, outputDuration) ==
    IF useCfrExport(videoSegments) THEN outputDurationFixedSec(outputDuration)
    ELSE [num |-> outputDuration, den |-> 1]

NoAudioFilter == [mapped |-> FALSE]

\* [audio]adelay,apad,atrim=0:target,asetpts -> [outa]
audioFilter(audioClip, skipFrames, outputDuration, target) ==
    IF audioClip.present /\ outputDuration > 0
    THEN [mapped |-> TRUE,
          adelay |-> audioDelayMs(skipFrames),
          apad |-> TRUE,
          atrim |-> target,
          inputDuration |-> audioClip.duration]
    ELSE NoAudioFilter

\* [outvraw]fps,trim -> [outv], and -vsync / -r
videoPostFilter(videoSegments, target) ==
    [fps |-> useCfrExport(videoSegments),
     trim |-> IF target.num > 0 THEN [present |-> TRUE, duration |-> target]
              ELSE [present |-> FALSE],
     vsync |-> IF useCfrExport(videoSegments) THEN "cfr" ELSE "vfr",
     r |-> IF useCfrExport(videoSegments) THEN DEFAULT_FPS ELSE 0]

\* what handleExport hands to runFfmpeg for a project it can export
ExportArgs(videoSegments, clipList, audioClip, skipFrames) ==
    LET pieces == concatInputs(videoSegments, clipList)
        outputDuration == outputDurationSec(pieces)
        target == outputDurationTargetSec(videoSegments, outputDuration)
    IN [concat |-> pieces,
        outputDurationSec |-> outputDuration,
        video |-> videoPostFilter(videoSegments, target),
        audio |-> audioFilter(audioClip, skipFrames, outputDuration, target),
        durationSec |-> target]

----------------------------------------------------------------------------
(* The filter graph on its own, for projects as a project file can hold them *)

ExportStartChoices == {0, 1000, 1100, 2000}
ExportDurationChoices == {100, 250, 1000}
ExportSkipChoices == {-3, 0, 3}

ExportClipA == [id |-> 1, name |-> <<1, 10>>, duration |-> 9000, type |-> "video"]
\* clip 2 is no longer in the pool
ExportClipLists == { <<ExportClipA>> }

ExportAudioChoices ==
    { [present |-> FALSE, duration |-> 0], [present |-> TRUE, duration |-> 5000] }

ExportSegment(id, sourceClipId, timelineStart, segmentDuration) ==
    [id |-> id, sourceClipId |-> sourceClipId, timelineStart |-> timelineStart,
     duration |-> segmentDuration, sourceStartOffset |-> 0]

ExportSegmentsAt(id) ==
    { ExportSegment(id, c, s, d) :
        c \in {1, 2}, s \in ExportStartChoices, d \in ExportDurationChoices }

ExportSegmentLists ==
    { <<a>> : a \in ExportSegmentsAt(1) } \cup
    { <<a, b>> : a \in ExportSegmentsAt(1), b \in ExportSegmentsAt(2) } \cup
    { <<a, b, c>> : a \in ExportSegmentsAt(1), b \in ExportSegmentsAt(2),
                    c \in ExportSegmentsAt(3) }

\* the projects handleExport gets as far as building arguments for
ExportCalls ==
    { c \in [fn : {"exportArgs"}, videoSegments : ExportSegmentLists,
             clips : ExportClipLists, audioClip : ExportAudioChoices,
             introSkipFrames : ExportSkipChoices] :
        \E i \in 1..Len(c.videoSegments) : HasInput(c.videoSegments[i], c.clips) }

\* concat=n=...: where the k-th input ends in [outvraw], each input being its
\* filler followed by the segment at its timeline length
RECURSIVE ConcatEnd(_, _)
ConcatEnd(pieces, k) ==
    IF k = 0 THEN 0
    ELSE ConcatEnd(pieces, k - 1) + pieces[k].gapSec + pieces[k].segmentDurationSec

\* where the segment of the k-th input begins in [outvraw]
ConcatStart(pieces, k) == ConcatEnd(pieces, k - 1) + pieces[k].gapSec

InitArgs ==
    /\ InitApp
    /\ call \in ExportCalls
    /\ ret = NoRet

CallExportArgs ==
    /\ call.fn = "exportArgs"
    /\ ~ret.done
    /\ ret' = [done |-> TRUE,
               value |-> ExportArgs(call.videoSegments, call.clips,
                                    call.audioClip, call.introSkipFrames)]
    /\ UNCHANGED <<call, appVars>>

NextArgs == CallExportArgs

SpecArgs == InitArgs /\ [][NextArgs]_vars

----------------------------------------------------------------------------
(* The audio position at a timeline time: App.tsx play / startAudioAt for the
   preview, the adelay, apad, atrim chain for the export *)

AudioEndMarginMs == 50

\* introSkipSec of play(), in ms
introSkipSec(skipFrames) == [num |-> Min(0, skipFrames) * 1000, den |-> DEFAULT_FPS]

\* offsetSec of startAudioAt(timelineMs): where in the buffer the source starts
startAudioAt(timelineMs, skipFrames, bufferDuration) ==
    LET skip == introSkipSec(skipFrames)
        maxOffset == [num |-> Max(0, bufferDuration - AudioEndMarginMs), den |-> 1]
        wanted == [num |-> timelineMs * skip.den - skip.num, den |-> skip.den]
    IN FracMin(FracMax(FracZero, wanted), maxOffset)

\* the time wanted is inside the buffer, so that startAudioAt does not clamp it
PreviewHasAudioAt(timelineMs, skipFrames, bufferDuration) ==
    LET skip == introSkipSec(skipFrames)
    IN /\ timelineMs * skip.den - skip.num >= 0
       /\ timelineMs * skip.den - skip.num
            < Max(0, bufferDuration - AudioEndMarginMs) * skip.den

\* adelay=d:all=1, apad, atrim=0:target: the input position heard at output
\* time t, silence where the delay or the padding plays
ExportAudioAt(filter, t) ==
    IF t < filter.adelay \/ t - filter.adelay >= filter.inputDuration
    THEN [silent |-> TRUE, position |-> FracZero]
    ELSE [silent |-> FALSE, position |-> [num |-> t - filter.adelay, den |-> 1]]

\* the length of [outa]: the padded input cut at the trim point
ExportAudioLength(filter) ==
    IF filter.apad THEN filter.atrim
    ELSE FracMin(filter.atrim, [num |-> filter.adelay + filter.inputDuration, den |-> 1])

\* timeline times an export is examined at
ExportTimeChoices == {0, 50, 100, 1000, 2500}

----------------------------------------------------------------------------
(* electron/ffmpeg.ts: the main process.  An invoke of "ffmpeg:run" is handled
   by startFfmpeg; the child it spawns later emits 'error' when it could not
   be spawned and 'close' when its streams have closed *)

\* request.jobId of the run requests sent by callers that choose their job id
JobIdChoices == {1, 2}

\* what spawn() does: the process runs, the process cannot be started (an
\* 'error' event follows), or resolveFfmpegPath throws before spawn
SpawnChoices == {"running", "failed", "throws"}

NoSignal == "null"

\* exitCode === null: the process was ended by a signal
NullExitCode == -1

\* the (exitCode, signal) a 'close' event of a process that ran carries
ExitChoices ==
    { [exitCode |-> 0, signal |-> NoSignal],
      [exitCode |-> 1, signal |-> NoSignal],
      [exitCode |-> NullExitCode, signal |-> "SIGKILL"],
      [exitCode |-> NullExitCode, signal |-> "SIGTERM"] }

\* the 'close' event of a process that was never started
FailedSpawnExit == [exitCode |-> -2, signal |-> NoSignal]

PendingReply == [kind |-> "pending"]

\* window.electronAPI.ffmpeg.run(request)
Invoke(jobId, args, durationSec) ==
    [jobId |-> jobId, args |-> args, durationSec |-> durationSec,
     handled |-> FALSE, reply |-> PendingReply]

\* settle the promise of an invoke; a settled promise stays as it is
Settle(invokes, i, reply) ==
    IF invokes[i].reply = PendingReply
    THEN [invokes EXCEPT ![i].reply = reply]
    ELSE invokes

\* activeJobs.has(jobId)
IsActive(jobs, jobId) == jobs[jobId] # NoChild

\* activeJobs.delete(jobId)
DeleteJob(jobs, jobId) == [jobs EXCEPT ![jobId] = NoChild]

\* the invoke the main process handles next: invokes arrive in order
NextInvoke ==
    IF \E i \in 1..Len(ffmpegRunInvokes) : ~ffmpegRunInvokes[i].handled
    THEN CHOOSE i \in 1..Len(ffmpegRunInvokes) :
            /\ ~ffmpegRunInvokes[i].handled
            /\ \A j \in 1..(i - 1) : ffmpegRunInvokes[j].handled
    ELSE 0

\* ipcMain.handle("ffmpeg:run"): startFfmpeg(event.sender, request)
startFfmpeg(spawned) ==
    /\ NextInvoke # 0
    /\ LET i == NextInvoke
           jobId == ffmpegRunInvokes[i].jobId
           handled == [ffmpegRunInvokes EXCEPT ![i].handled = TRUE]
       IN IF IsActive(activeJobs, jobId)
          THEN /\ ffmpegRunInvokes' =
                     Settle(handled, i, [kind |-> "rejected", error |-> "already running"])
               /\ UNCHANGED <<activeJobs, children>>
          ELSE IF spawned = "throws"
          THEN /\ ffmpegRunInvokes' =
                     Settle(handled, i, [kind |-> "rejected", error |-> "spawn"])
               /\ UNCHANGED <<activeJobs, children>>
          ELSE /\ children' = Append(children,
                                  [jobId |-> jobId, invoke |-> i,
                                   running |-> (spawned = "running"),
                                   errorPending |-> (spawned = "failed"),
                                   closeListener |-> TRUE,
                                   signalled |-> FALSE])
               /\ activeJobs' = [activeJobs EXCEPT ![jobId] = Len(children) + 1]
               /\ ffmpegRunInvokes' = handled
    /\ UNCHANGED <<call, ret, clips, tracks, beatGrid, introSkipFrames, duration,
                   selectedSegmentId, selectedMediaClipId, mediaClipBars, swapMode,
                   swapSourceId, masterAudioBuffer, transportVars, exportVars,
                   last, steps,
                   proxyVars>>

\* child.once("error", ...)
childError(pid) ==
    /\ pid \in 1..Len(children)
    /\ children[pid].errorPending
    /\ children' = [children EXCEPT ![pid].errorPending = FALSE]
    /\ activeJobs' = DeleteJob(activeJobs, children[pid].jobId)
    /\ ffmpegRunInvokes' = Settle(ffmpegRunInvokes, children[pid].invoke,
                                  [kind |-> "rejected", error |-> "spawn"])
    /\ UNCHANGED <<call, ret, clips, tracks, beatGrid, introSkipFrames, duration,
                   selectedSegmentId, selectedMediaClipId, mediaClipBars, swapMode,
                   swapSourceId, masterAudioBuffer, transportVars, exportVars,
                   last, steps,
                   proxyVars>>

\* child.once("close", ...): the process has ended, or was never started and
\* has emitted its 'error'
childClose(pid, exit) ==
    /\ pid \in 1..Len(children)
    /\ children[pid].closeListener
    /\ ~children[pid].errorPending
    /\ children[pid].running <=> exit # FailedSpawnExit
    /\ children' = [children EXCEPT ![pid].running = FALSE,
                                    ![pid].closeListener = FALSE]
    /\ activeJobs' = DeleteJob(activeJobs, children[pid].jobId)
    /\ ffmpegRunInvokes' = Settle(ffmpegRunInvokes, children[pid].invoke,
                                  [kind |-> "resolved", exitCode |-> exit.exitCode,
                                   signal |-> exit.signal])
    /\ UNCHANGED <<call, ret, clips, tracks, beatGrid, introSkipFrames, duration,
                   selectedSegmentId, selectedMediaClipId, mediaClipBars, swapMode,
                   swapSourceId, masterAudioBuffer, transportVars, exportVars,
                   last, steps,
                   proxyVars>>

\* a caller sends a run request under a job id of its choice
runFfmpeg(jobId) ==
    /\ Len(ffmpegRunInvokes) < MaxRuns
    /\ ffmpegRunInvokes' = Append(ffmpegRunInvokes, Invoke(jobId, <<>>, 0))
    /\ Ran("runFfmpeg", jobId, 0, 0, 0)
    /\ UNCHANGED <<call, ret, clips, tracks, beatGrid, introSkipFrames, duration,
                   selectedSegmentId, selectedMediaClipId, mediaClipBars, swapMode,
                   swapSourceId, masterAudioBuffer, transportVars, exportVars,
                   activeJobs, children,
                   proxyVars>>

NextJobs ==
    \/ \E jobId \in JobIdChoices : runFfmpeg(jobId)
    \/ \E spawned \in SpawnChoices : startFfmpeg(spawned)
    \/ \E pid \in 1..MaxRuns : childError(pid)
    \/ \E pid \in 1..MaxRuns, exit \in ExitChoices \cup {FailedSpawnExit} :
           childClose(pid, exit)

SpecJobs == Init /\ [][NextJobs]_vars

----------------------------------------------------------------------------
(* App.tsx: the export dialog.  The dialog is a modal overlay: while it is
   open no other control of the window can be reached.  handleExport runs to
   its await in one step and continues when the promise of runFfmpeg settles *)

\* window.electronAPI?.ffmpeg?.run: the window is the one of the Electron app
HasElectronAPI == TRUE

\* progress.progress of the events of a job whose durationSec is > 0, in
\* tenths of a percent: between 0 and 100
ProgressChoices == {0, 374, 996, 1000}

IsVideoTrack(t) == t.type = "video"
IsAudioTrack(t) == t.type = "audio"

\* tracks.find(t => t.type === 'video')?.segments || []
VideoSegments(trks) ==
    LET video == SelectSeq(trks, IsVideoTrack)
    IN IF video = <<>> THEN <<>> ELSE video[1].segments

\* audioClip of handleExport: the clip of the first audio segment
ExportAudioClip(trks, clipList) ==
    LET audio == SelectSeq(trks, IsAudioTrack)
        segments == IF audio = <<>> THEN <<>> ELSE audio[1].segments
    IN IF segments # <<>> /\ segments[1].sourceClipId \in ClipIds(clipList)
       THEN [present |-> TRUE,
             duration |-> ClipById(clipList, segments[1].sourceClipId).duration]
       ELSE [present |-> FALSE, duration |-> 0]

\* uuidv4(): a job id no invoke has used
FreshJobId == Len(ffmpegRunInvokes) + 1

NothingToRender_never(pieces) == FALSE

\* concatInputs.length === 0
NothingToRender(pieces) == pieces = <<>>

IsFailure(reply) == reply.exitCode # 0 \/ reply.signal # NoSignal

FailureMessage_generic(reply) ==
    [kind |-> "Export failed (ffmpeg code, signal)",
     exitCode |-> IF reply.exitCode = NullExitCode THEN "unknown" ELSE ToString(reply.exitCode),
     signal |-> reply.signal]

\* the message of a failed run: the one for SIGKILL, or the one that carries
\* the exit code ('unknown' for null) and the signal
FailureMessage(reply) ==
    IF reply.signal = "SIGKILL"
    THEN [kind |-> "Export failed (SIGKILL). The OS likely ran out of memory."]
    ELSE [kind |-> "Export failed (ffmpeg code, signal)",
          exitCode |-> IF reply.exitCode = NullExitCode THEN "unknown"
                       ELSE ToString(reply.exitCode),
          signal |-> reply.signal]

\* preload.cts onProgress: ipcRenderer.on("ffmpeg:progress", listener) for
\* the callback that handles the events of jobId, and the function it
\* returns: ipcRenderer.removeListener
Subscribed(listeners, jobId) == listeners \cup {jobId}

Unsubscribed_never(listeners, jobId) == listeners

Unsubscribed(listeners, jobId) == listeners \ {jobId}

openExportDialog ==
    /\ ~exportOpen
    /\ exportProgress' = 0
    /\ exportError' = NoError
    /\ exportOpen' = TRUE
    /\ Ran("openExport", null, 0, 0, 0)
    /\ UNCHANGED <<call, ret, clips, tracks, beatGrid, introSkipFrames, duration,
                   selectedSegmentId, selectedMediaClipId, mediaClipBars, swapMode,
                   swapSourceId, masterAudioBuffer, transportVars, jobVars,
                   exporting, exportJob, progressListeners,
                   proxyVars>>

closeExportDialog ==
    /\ exportOpen
    /\ IF exporting
       THEN UNCHANGED <<exportOpen, exportError>>
       ELSE exportOpen' = FALSE /\ exportError' = NoError
    /\ Ran("closeExport", null, 0, 0, 0)
    /\ UNCHANGED <<call, ret, clips, tracks, beatGrid, introSkipFrames, duration,
                   selectedSegmentId, selectedMediaClipId, mediaClipBars, swapMode,
                   swapSourceId, masterAudioBuffer, transportVars, jobVars,
                   exporting, exportProgress, exportJob, progressListeners,
                   proxyVars>>

\* the Export button, up to the await of runFfmpeg or an early return
handleExport ==
    /\ exportOpen
    /\ ~exporting
    /\ Len(ffmpegRunInvokes) < MaxRuns
    /\ LET videoSegments == VideoSegments(tracks)
           pieces == concatInputs(videoSegments, clips)
           args == ExportArgs(videoSegments, clips,
                              ExportAudioClip(tracks, clips), introSkipFrames)
       IN IF Len(videoSegments) = 0
          THEN /\ exportError' = [kind |-> "Nothing to export yet."]
               /\ UNCHANGED <<exporting, exportProgress, exportJob, ffmpegRunInvokes,
                              progressListeners>>
          ELSE IF ~HasElectronAPI
          THEN /\ exportError' = [kind |-> "Export is only available in the Electron app."]
               /\ UNCHANGED <<exporting, exportProgress, exportJob, ffmpegRunInvokes,
                              progressListeners>>
          ELSE IF NothingToRender(pieces)
          THEN /\ exportError' = [kind |-> "No valid video segments to export."]
               /\ exportProgress' = 0
               /\ exporting' = FALSE
               /\ UNCHANGED <<exportJob, ffmpegRunInvokes, progressListeners>>
          ELSE /\ exportError' = NoError
               /\ exportProgress' = 0
               /\ exporting' = TRUE
               /\ ffmpegRunInvokes' =
                     Append(ffmpegRunInvokes, Invoke(FreshJobId, args, args.durationSec))
               /\ exportJob' = [awaiting |-> TRUE, invoke |-> Len(ffmpegRunInvokes) + 1]
               /\ progressListeners' = Subscribed(progressListeners, FreshJobId)
    /\ Ran("export", null, 0, 0, 0)
    /\ UNCHANGED <<call, ret, clips, tracks, beatGrid, introSkipFrames, duration,
                   selectedSegmentId, selectedMediaClipId, mediaClipBars, swapMode,
                   swapSourceId, masterAudioBuffer, transportVars, activeJobs,
                   children, exportOpen,
                   proxyVars>>

\* the callback given to onFfmpegProgress, for a progress event of child pid
onFfmpegProgress(pid, progress) ==
    /\ pid \in 1..Len(children)
    /\ children[pid].running
    /\ exportJob.awaiting
    /\ children[pid].jobId \in progressListeners
    /\ children[pid].jobId = ffmpegRunInvokes[exportJob.invoke].jobId
    /\ ffmpegRunInvokes[exportJob.invoke].durationSec.num > 0
    /\ exportProgress' = Min(100, RoundDiv(progress, 10))
    /\ UNCHANGED <<call, ret, clips, tracks, beatGrid, introSkipFrames, duration,
                   selectedSegmentId, selectedMediaClipId, mediaClipBars, swapMode,
                   swapSourceId, masterAudioBuffer, transportVars, jobVars,
                   exportOpen, exporting, exportError, exportJob, progressListeners,
                   last, steps,
                   proxyVars>>

\* handleExport from its await on: execResult or the rejection, then finally
handleExportSettled ==
    /\ exportJob.awaiting
    /\ ffmpegRunInvokes[exportJob.invoke].reply # PendingReply
    /\ LET reply == ffmpegRunInvokes[exportJob.invoke].reply
       IN IF reply.kind = "rejected"
          THEN /\ exportError' = [kind |-> "thrown", message |-> reply.error]
               /\ UNCHANGED <<exportProgress, exportOpen>>
          ELSE IF IsFailure(reply)
          THEN /\ exportError' = FailureMessage(reply)
               /\ UNCHANGED <<exportProgress, exportOpen>>
          ELSE /\ exportProgress' = 100
               /\ exportOpen' = FALSE
               /\ UNCHANGED exportError
    /\ progressListeners' =
          Unsubscribed(progressListeners, ffmpegRunInvokes[exportJob.invoke].jobId)
    /\ exporting' = FALSE
    /\ exportJob' = NoExportJob
    /\ Ran("exportSettled", null, 0, 0, 0)
    /\ UNCHANGED <<call, ret, clips, tracks, beatGrid, introSkipFrames, duration,
                   selectedSegmentId, selectedMediaClipId, mediaClipBars, swapMode,
                   swapSourceId, masterAudioBuffer, transportVars, jobVars,
                   proxyVars>>

\* saved projects: one whose clips exist but for one segment's, one whose
\* video clips are all gone, one without segments
ExportAudio == [id |-> 2, duration |-> 5000, name |-> <<2, 1>>, type |-> "audio"]

ExportTracks(videoSegments, audioSegments) ==
    << [id |-> "video-1", type |-> "video", segments |-> videoSegments],
       [id |-> "audio-1", type |-> "audio", segments |-> audioSegments] >>

ExportProject(clipList, videoSegments, audioSegments, skipFrames) ==
    [clips |-> clipList, tracks |-> ExportTracks(videoSegments, audioSegments),
     beatGrid |-> EmptyBeatGrid, introSkipFrames |-> skipFrames,
     duration |-> [finite |-> TRUE, ms |-> 5000]]

ExportPayloadChoices ==
    { ExportProject(<<ExportClipA, ExportAudio>>,
                    << ExportSegment(1, 1, 0, 1000), ExportSegment(2, 3, 1000, 100),
                       ExportSegment(3, 1, 1100, 250) >>,
                    << ExportSegment(4, 2, 0, 5000) >>, skip) : skip \in {-3, 0} }
    \cup
    { ExportProject(<<ExportAudio>>,
                    << ExportSegment(1, 1, 0, 1000) >>,
                    << ExportSegment(4, 2, 0, 5000) >>, 0),
      ExportProject(<<ExportClipA>>, <<>>, <<>>, 0) }

NextExport ==
    \/ \E payload \in ExportPayloadChoices : ~exportOpen /\ applyProjectPayload(payload)
    \/ openExportDialog
    \/ closeExportDialog
    \/ handleExport
    \/ \E spawned \in SpawnChoices : startFfmpeg(spawned)
    \/ \E pid \in 1..MaxRuns : childError(pid)
    \/ \E pid \in 1..MaxRuns, exit \in ExitChoices \cup {FailedSpawnExit} :
           childClose(pid, exit)
    \/ \E pid \in 1..MaxRuns, progress \in ProgressChoices : onFfmpegProgress(pid, progress)
    \/ handleExportSettled

SpecExport == Init /\ [][NextExport]_vars

----------------------------------------------------------------------------
(* App.tsx: the tempo controls of the inspector, shown for a selected segment
   of an audio clip *)

\* the values typed into the BPM field and into the intro-skip field; the
\* frame counts are whole tenths of a second at DEFAULT_FPS
TempoBpmChoices == {20, 60, 1000}
TempoFrameChoices == {-9, 0, 3}

InspectorShowsTempo ==
    /\ InspectorShowsSegment
    /\ InspectorSourceClip.type = "audio"

\* frames / DEFAULT_FPS, in ms
FramesToMs(frames) == (frames * 1000) \div DEFAULT_FPS

handleUpdateIntroSkipFrames(nextFrames) ==
    /\ InspectorShowsTempo
    /\ LET clampedFrames == nextFrames
           deltaFrames == clampedFrames - introSkipFrames
       IN IF Len(beatGrid.beats) = 0 \/ deltaFrames = 0
          THEN UNCHANGED beatGrid
          ELSE beatGrid' = ShiftedGrid(beatGrid, FramesToMs(deltaFrames))
    /\ introSkipFrames' = nextFrames
    /\ Ran("updateIntroSkipFrames", null, nextFrames, introSkipFrames, 0)
    /\ UNCHANGED <<nonEditorVars, call, ret, clips, tracks, duration,
                   selectedSegmentId, selectedMediaClipId, mediaClipBars, swapMode,
                   swapSourceId, masterAudioBuffer>>

handleUpdateBpm(nextBpm) ==
    /\ InspectorShowsTempo
    /\ IF ~nextBpm.finite
       THEN UNCHANGED beatGrid
       ELSE LET clampedBpm == Min(300, Max(30, nextBpm.bpm))
                introSkipMs == FramesToMs(introSkipFrames)
                baseOffset == beatGrid.offset - introSkipMs
                rebuilt == buildBeatGrid(clampedBpm, baseOffset, duration)
            IN beatGrid' = ShiftedGrid(rebuilt, introSkipMs)
    /\ Ran("updateBpm", null, IF nextBpm.finite THEN nextBpm.bpm ELSE 0, 0, 0)
    /\ UNCHANGED <<nonEditorVars, call, ret, clips, tracks, introSkipFrames, duration,
                   selectedSegmentId, selectedMediaClipId, mediaClipBars, swapMode,
                   swapSourceId, masterAudioBuffer>>

NextTempo ==
    \/ \E d \in AudioDurationChoices, bpm \in AnalyzedBpmChoices,
          anchor \in AnchorBeatChoices :
           handleImport(TRUE, <<2, 1>>, d, bpm, anchor)
    \/ \E id \in 1..MaxSegs : handleSelectSegment(id)
    \/ \E frames \in TempoFrameChoices : handleUpdateIntroSkipFrames(frames)
    \/ \E bpm \in TempoBpmChoices : handleUpdateBpm([finite |-> TRUE, bpm |-> bpm])
    \/ handleUpdateBpm([finite |-> FALSE, bpm |-> 0])

SpecTempo == Init /\ [][NextTempo]_vars

----------------------------------------------------------------------------
(* services/audioUtils.ts: analyzeBeats, from the detected onsets on.  The
   onsets are window indices times the 50 ms window, more than 5 windows
   apart; beatTimes holds them in ms *)

DefaultBpm == 120

\* beatTimes[i] - beatTimes[i - 1] for i = 1 .. length - 1
OnsetIntervals(beatTimes) ==
    [i \in 1..(Len(beatTimes) - 1) |-> beatTimes[i + 1] - beatTimes[i]]

\* interval > 0.3 && interval < 1.0
IsQualifying(interval) == interval > 300 /\ interval < 1000

\* intervals[Math.floor(intervals.length / 2)] of the sorted intervals
MedianInterval(intervals) == SortNumeric(intervals)[(Len(intervals) \div 2) + 1]

\* if (bpm < 60) bpm *= 2; if (bpm > 180) bpm /= 2, for a bpm whose half is whole
RefinedBpm(bpm) ==
    LET doubled == IF bpm < 60 THEN bpm * 2 ELSE bpm
    IN IF doubled > 180 THEN doubled \div 2 ELSE doubled

\* the bpm of the grid analyzeBeats returns
EstimatedBpm(beatTimes) ==
    LET intervals == SelectSeq(OnsetIntervals(beatTimes), IsQualifying)
        bpm == IF Len(beatTimes) > 1 /\ Len(intervals) > 0
               THEN RoundDiv(60000, MedianInterval(intervals))
               ELSE DefaultBpm
    IN RefinedBpm(bpm)

\* onset times: no two are less than 6 windows apart, and no interval is
\* exactly 0.3 s or 1.0 s
OnsetTimeChoices == {0, 400, 800, 1300, 2500, 2900, 3500}

AnalyzeCalls ==
    [fn : {"analyzeBeats"},
     beatTimes : { SetToSortedSeq(S) : S \in SUBSET OnsetTimeChoices }]

InitAnalyze ==
    /\ InitApp
    /\ call \in AnalyzeCalls
    /\ ret = NoRet

CallAnalyzeBeats ==
    /\ call.fn = "analyzeBeats"
    /\ ~ret.done
    /\ ret' = [done |-> TRUE, value |-> EstimatedBpm(call.beatTimes)]
    /\ UNCHANGED <<call, appVars>>

NextAnalyze == CallAnalyzeBeats

SpecAnalyze == InitAnalyze /\ [][NextAnalyze]_vars

----------------------------------------------------------------------------
(* services/audioUtils.ts: buildBeatGrid in the arithmetic of JavaScript
   numbers.  A number is an IEEE 754 binary64 value; a positive one is held
   as [exp, bits] with bits its 53-bit significand, most significant bit
   first and bits[1] = 1, and stands for 1.b2 b3 ... b53 times 2^exp.  Every
   operation rounds its exact result to the nearest such value, ties to the
   even significand *)

SignificandBits == 53

FloatZero == [exp |-> 0, bits |-> [i \in 1..SignificandBits |-> 0]]

\* the next larger significand; past the largest one the exponent grows
RoundUp(x) ==
    LET n == SignificandBits
    IN IF \A j \in 1..n : x.bits[j] = 1
       THEN [exp |-> x.exp + 1, bits |-> [j \in 1..n |-> IF j = 1 THEN 1 ELSE 0]]
       ELSE LET z == CHOOSE i \in 1..n :
                        x.bits[i] = 0 /\ \A j \in (i + 1)..n : x.bits[j] = 1
            IN [exp |-> x.exp,
                bits |-> [j \in 1..n |-> IF j < z THEN x.bits[j]
                                         ELSE IF j = z THEN 1 ELSE 0]]

\* 2^k for k >= 0
RECURSIVE Pow2(_)
Pow2(k) == IF k = 0 THEN 1 ELSE 2 * Pow2(k - 1)

\* an integer n >= 1 as a number
FloatOfInt(n) ==
    LET e == CHOOSE k \in 0..20 : Pow2(k) <= n /\ n < Pow2(k + 1)
    IN [exp |-> e,
        bits |-> [i \in 1..SignificandBits |->
                    IF i <= e + 1 THEN (n \div Pow2(e + 1 - i)) % 2 ELSE 0]]

\* the significand of a quotient in [1, 2) by long division: the bits found
\* so far and the remainder they leave
RECURSIVE QuotientBits(_, _, _)
QuotientBits(rem, den, bits) ==
    IF Len(bits) = SignificandBits THEN [bits |-> bits, rem |-> rem]
    ELSE IF 2 * rem >= den
         THEN QuotientBits(2 * rem - den, den, Append(bits, 1))
         ELSE QuotientBits(2 * rem, den, Append(bits, 0))

\* num / den for integers num, den >= 1
FloatQuotient(num, den) ==
    LET e == CHOOSE k \in -20..20 :
                 IF k >= 0 THEN Pow2(k) * den <= num /\ num < Pow2(k + 1) * den
                 ELSE den <= Pow2(-k) * num /\ Pow2(-k) * num < 2 * den
        n0 == IF e >= 0 THEN num ELSE Pow2(-e) * num
        d0 == IF e >= 0 THEN Pow2(e) * den ELSE den
        quotient == QuotientBits(n0 - d0, d0, <<1>>)
        truncated == [exp |-> e, bits |-> quotient.bits]
        twice == 2 * quotient.rem
    IN IF twice > d0 \/ (twice = d0 /\ truncated.bits[SignificandBits] = 1)
       THEN RoundUp(truncated)
       ELSE truncated

\* x < y for numbers >= 0
FloatLess(x, y) ==
    IF y = FloatZero THEN FALSE
    ELSE IF x = FloatZero THEN TRUE
    ELSE \/ x.exp < y.exp
         \/ /\ x.exp = y.exp
            /\ \E i \in 1..SignificandBits :
                   /\ x.bits[i] < y.bits[i]
                   /\ \A j \in 1..(i - 1) : x.bits[j] = y.bits[j]

\* the bit of weight 2^p of a significand shifted left by shift places
BitAt(bits, shift, p) ==
    IF p - shift \in 0..(SignificandBits - 1)
    THEN bits[SignificandBits - (p - shift)]
    ELSE 0

\* the exact sum of two significands, the first shifted left by d places:
\* its bits from weight 2^0 up to weight 2^(53 + d)
RECURSIVE SumBits(_, _, _, _, _)
SumBits(hiBits, loBits, d, carry, sum) ==
    IF Len(sum) = SignificandBits + d + 1 THEN sum
    ELSE LET p == Len(sum)
             total == BitAt(hiBits, d, p) + BitAt(loBits, 0, p) + carry
         IN SumBits(hiBits, loBits, d, total \div 2, Append(sum, total % 2))

\* x + y for positive numbers: the exact sum at the scale of the smaller
\* exponent, rounded to 53 significant bits
FloatAdd(x, y) ==
    LET hi == IF x.exp >= y.exp THEN x ELSE y
        lo == IF x.exp >= y.exp THEN y ELSE x
        d == hi.exp - lo.exp
        n == SignificandBits
        sum == SumBits(hi.bits, lo.bits, d, 0, <<>>)
        S(p) == sum[p + 1]
        top == IF S(n + d) = 1 THEN n + d ELSE n + d - 1
        cut == top - (n - 1)
        kept == [exp |-> lo.exp + cut,
                 bits |-> [i \in 1..n |-> S(top - (i - 1))]]
        half == cut >= 1 /\ S(cut - 1) = 1
        sticky == \E p \in 0..(cut - 2) : S(p) = 1
    IN IF half /\ (sticky \/ S(cut) = 1) THEN RoundUp(kept) ELSE kept

\* while (t < durationSec) { push(Math.max(0, t)); t += spb } for t > 0
RECURSIVE FloatForwardFill(_, _, _, _)
FloatForwardFill(t, spb, durationSec, cleanBeats) ==
    IF FloatLess(t, durationSec)
    THEN FloatForwardFill(FloatAdd(t, spb), spb, durationSec, Append(cleanBeats, t))
    ELSE cleanBeats

\* buildBeatGrid(bpm, 0, durationSec).beats for whole bpm and durationSec:
\* no backfill from offset 0; t = 0 is pushed when 0 < durationSec, and
\* 0 + spb is spb; the beats come out ascending and distinct
buildBeatGridFromZero(bpm, durationSec) ==
    LET spb == FloatQuotient(60, bpm)
    IN IF durationSec > 0
       THEN FloatForwardFill(spb, spb, FloatOfInt(durationSec), <<FloatZero>>)
       ELSE <<>>

FloatBpmChoices == (40..90) \cup {120}
FloatDurationSecChoices == {0, 4, 8}

FloatGridCalls ==
    [fn : {"buildBeatGridFromZero"}, bpm : FloatBpmChoices,
     durationSec : FloatDurationSecChoices]

InitFloatGrid ==
    /\ InitApp
    /\ call \in FloatGridCalls
    /\ ret = NoRet

CallBuildBeatGridFromZero ==
    /\ call.fn = "buildBeatGridFromZero"
    /\ ~ret.done
    /\ ret' = [done |-> TRUE, value |-> buildBeatGridFromZero(call.bpm, call.durationSec)]
    /\ UNCHANGED <<call, appVars>>

NextFloatGrid == CallBuildBeatGridFromZero

SpecFloatGrid == InitFloatGrid /\ [][NextFloatGrid]_vars

----------------------------------------------------------------------------
(* App.tsx: handleRemoveSegment as a handler, for the id of any segment,
   selected or not, present or already gone *)

\* saved projects of three segments of one clip on the video track, stored in
\* time order and out of it
RemoveSegmentLists ==
    { << ExportSegment(1, 1, 0, 1000), ExportSegment(2, 1, 1000, 1000),
         ExportSegment(3, 1, 2000, 1000) >>,
      << ExportSegment(3, 1, 2000, 1000), ExportSegment(1, 1, 0, 1000),
         ExportSegment(2, 1, 1000, 1000) >> }

RemovePayloadChoices ==
    { ExportProject(<<ExportClipA>>, segments, <<>>, 0) : segments \in RemoveSegmentLists }

NextRemove ==
    \/ \E payload \in RemovePayloadChoices : applyProjectPayload(payload)
    \/ \E file \in VideoFileChoices :
           handleImport(FALSE, file[1], file[2], 120, 0)
    \/ \E d \in AudioDurationChoices, bpm \in AnalyzedBpmChoices,
          anchor \in AnchorBeatChoices :
           handleImport(TRUE, <<2, 1>>, d, bpm, anchor)
    \/ \E id \in 1..MaxClips : handleSelectMediaClip(id)
    \/ \E id \in 1..MaxSegs : handleSelectSegment(id)
    \/ handleAddClipToTimeline
    \/ \E id \in 1..MaxSegs : handleRemoveSegment(id)

SpecRemove == Init /\ [][NextRemove]_vars

----------------------------------------------------------------------------
(* The rate of a segment: PreviewPlayer's effectiveRate and the trim and
   setpts filters handleExport writes for it.  A rate is a fraction
   [num, den]; what formatSec and toFixed(6) print is held in millionths *)

\* effectiveRate of the sync effect
effectiveRate(seg, clip) ==
    IF RateIsCapped(seg, clip)
    THEN [num |-> AvailableDuration(seg, clip), den |-> seg.duration]
    ELSE [num |-> RequestedRate(seg), den |-> 100]

\* speedRate of handleExport: Math.min(requestedRate, maxRate), which is
\* finite and above 0
speedRate(segment, clip) ==
    LET availableDuration == Max(0, clip.duration - segment.sourceStartOffset)
    IN IF /\ availableDuration > 0
          /\ segmentDurationMs(segment) > 0
          /\ availableDuration * 100 < RequestedRate(segment) * segmentDurationMs(segment)
       THEN [num |-> availableDuration, den |-> segmentDurationMs(segment)]
       ELSE [num |-> RequestedRate(segment), den |-> 100]

\* the digits of rem / den after the decimal point, as a number of `places`
\* digits, and what is left of rem
RECURSIVE DecimalPlaces(_, _, _, _)
DecimalPlaces(rem, den, places, digits) ==
    IF places = 0 THEN [digits |-> digits, rem |-> rem]
    ELSE DecimalPlaces((rem * 10) % den, den, places - 1,
                       digits * 10 + (rem * 10) \div den)

\* (num / den).toFixed(6), in millionths, for num >= 0 and den > 0
toFixed6(num, den) ==
    LET places == DecimalPlaces(num % den, den, 6, 0)
    IN (num \div den) * 1000000 + places.digits
         + (IF 2 * places.rem >= den THEN 1 ELSE 0)

\* formatSec(startSec), in microseconds
startSec(segment) == toFixed6(segment.sourceStartOffset, 1000)

\* formatSec(durationSec) of the trim filter, in microseconds:
\* Math.max(0.001, (segmentDurationMs * speedRate) / 1000)
trimDurationSec(segment, rate) ==
    Max(1000, toFixed6(segmentDurationMs(segment) * rate.num, rate.den * 1000))

\* speedFactor.toFixed(6), in millionths
speedFactor(rate) == toFixed6(rate.den, rate.num)

\* trim=start=...:duration=...,setpts=(PTS-STARTPTS)*... of one segment
trimAndSetpts(segment, clip) ==
    LET rate == speedRate(segment, clip)
    IN [rate |-> rate,
        trimStart |-> startSec(segment),
        trimDuration |-> trimDurationSec(segment, rate),
        setpts |-> speedFactor(rate)]

RateDurationChoices == {1, 10, 1000, 2000}
RateOffsetChoices == {0, 700, 1500}
RateChoices ==
    { [finite |-> FALSE, hundredths |-> 0] } \cup
    { [finite |-> TRUE, hundredths |-> h] : h \in {1, 5, 35, 100, 300} }
RateClipDurationChoices == {30, 1500, 9000}

RateCalls ==
    [fn : {"rate"},
     segment : [duration : RateDurationChoices, sourceStartOffset : RateOffsetChoices,
                playbackRate : RateChoices],
     clip : [id : {1}, duration : RateClipDurationChoices]]

InitRate ==
    /\ InitApp
    /\ call \in RateCalls
    /\ ret = NoRet

\* the sync effect and handleExport each come to the segment
CallRate ==
    /\ call.fn = "rate"
    /\ ~ret.done
    /\ ret' = [done |-> TRUE,
               value |-> [preview |-> effectiveRate(call.segment, call.clip),
                          export |-> trimAndSetpts(call.segment, call.clip)]]
    /\ UNCHANGED <<call, appVars>>

NextRate == CallRate

SpecRate == InitRate /\ [][NextRate]_vars

----------------------------------------------------------------------------
(* App.tsx: handleExport, the fade filters of one segment, and the fades whose
   window has no length.  st and d are what formatSec prints, in microseconds *)

fadeDSec_noFloor(durationMs) == toFixed6(durationMs, 1000)

\* formatSec(dSec): Math.max(durationMs / 1000, 0.001)
fadeDSec(durationMs) == toFixed6(Max(durationMs, 1), 1000)

\* fade=t=in:st=...:d=...
fadeInFilter(fadeIn) ==
    LET start == Max(0, fadeIn.startMs)
        end == Max(start, fadeIn.endMs)
        durationMs == end - start
    IN [t |-> "in",
        st |-> toFixed6(IF durationMs > 0 THEN start ELSE end, 1000),
        d |-> fadeDSec(durationMs)]

\* fade=t=out:st=...:d=...
fadeOutFilter(segment, fadeOut) ==
    LET startRaw == segmentDurationMs(segment) + fadeOut.startMs
        endRaw == segmentDurationMs(segment) + fadeOut.endMs
        clampedStart == Max(0, Min(segmentDurationMs(segment), startRaw))
        clampedEnd == Max(0, Min(segmentDurationMs(segment), endRaw))
        start == Min(clampedStart, clampedEnd)
        end == Max(clampedStart, clampedEnd)
        durationMs == end - start
    IN [t |-> "out",
        st |-> toFixed6(IF durationMs > 0 THEN start ELSE end, 1000),
        d |-> fadeDSec(durationMs)]

fadeFilters(segment) ==
    LET fadeIn == FadeOrDefault(segment.fadeIn, defaultFadeIn)
        fadeOut == FadeOrDefault(segment.fadeOut, defaultFadeOut)
    IN (IF fadeIn.enabled THEN <<fadeInFilter(fadeIn)>> ELSE <<>>)
         \o (IF fadeOut.enabled THEN <<fadeOutFilter(segment, fadeOut)>> ELSE <<>>)

CutFadeInChoices ==
    { [present |-> FALSE] } \cup
    [present : {TRUE}, enabled : BOOLEAN, startMs : {-500, 0, 200},
     endMs : {-100, 0, 200, 500}]
CutFadeOutChoices ==
    { [present |-> FALSE] } \cup
    [present : {TRUE}, enabled : BOOLEAN, startMs : {-3000, -500, 0},
     endMs : {-2500, -500, -200, 0}]
CutLocalTimeChoices == {0, 100, 199, 200, 500, 599, 1499, 1500}

CutSegments ==
    [duration : FadeDurationChoices, fadeIn : CutFadeInChoices,
     fadeOut : CutFadeOutChoices]

FadeCutCalls ==
    UNION { { [fn |-> "getFadeAlpha", segment |-> seg, localTimeMs |-> t] :
              t \in { t \in CutLocalTimeChoices : t < seg.duration } } :
            seg \in CutSegments }
    \cup { [fn |-> "fadeFilters", segment |-> seg, localTimeMs |-> 0] :
           seg \in CutSegments }

InitFadeCut ==
    /\ InitApp
    /\ call \in FadeCutCalls
    /\ ret = NoRet

CallFadeFilters ==
    /\ call.fn = "fadeFilters"
    /\ ~ret.done
    /\ ret' = [done |-> TRUE, value |-> fadeFilters(call.segment)]
    /\ UNCHANGED <<call, appVars>>

NextFadeCut ==
    \/ CallGetFadeAlpha
    \/ CallFadeFilters

SpecFadeCut == InitFadeCut /\ [][NextFadeCut]_vars

----------------------------------------------------------------------------
(* The [start, end] window of each enabled fade, as getFadeAlpha and
   handleExport resolve it before they use it *)

NoWindow == [enabled |-> FALSE]

\* start / end of the fade-in block and minEdge / maxEdge of the fade-out
\* block of getFadeAlpha
previewFadeWindows(segment) ==
    LET fadeIn == FadeOrDefault(segment.fadeIn, defaultFadeIn)
        fadeOut == FadeOrDefault(segment.fadeOut, defaultFadeOut)
        inStart == Max(0, fadeIn.startMs)
        clampedStart == Max(0, Min(segment.duration, segment.duration + fadeOut.startMs))
        clampedEnd == Max(0, Min(segment.duration, segment.duration + fadeOut.endMs))
    IN [fadeIn |-> IF fadeIn.enabled
                   THEN [enabled |-> TRUE, start |-> inStart,
                         end |-> Max(inStart, fadeIn.endMs)]
                   ELSE NoWindow,
        fadeOut |-> IF fadeOut.enabled
                    THEN [enabled |-> TRUE, start |-> Min(clampedStart, clampedEnd),
                          end |-> Max(clampedStart, clampedEnd)]
                    ELSE NoWindow]

\* start / end of the fadeIn and of the fadeOut block of handleExport
exportFadeWindows(segment) ==
    LET fadeIn == FadeOrDefault(segment.fadeIn, defaultFadeIn)
        fadeOut == FadeOrDefault(segment.fadeOut, defaultFadeOut)
        inStart == Max(0, fadeIn.startMs)
        startRaw == segmentDurationMs(segment) + fadeOut.startMs
        endRaw == segmentDurationMs(segment) + fadeOut.endMs
        clampedStart == Max(0, Min(segmentDurationMs(segment), startRaw))
        clampedEnd == Max(0, Min(segmentDurationMs(segment), endRaw))
    IN [fadeIn |-> IF fadeIn.enabled
                   THEN [enabled |-> TRUE, start |-> inStart,
                         end |-> Max(inStart, fadeIn.endMs)]
                   ELSE NoWindow,
        fadeOut |-> IF fadeOut.enabled
                    THEN [enabled |-> TRUE, start |-> Min(clampedStart, clampedEnd),
                          end |-> Max(clampedStart, clampedEnd)]
                    ELSE NoWindow]

WindowDurationChoices == {250, 600}

FadeWindowCalls ==
    [fn : {"fadeWindows"},
     segment : [duration : WindowDurationChoices, fadeIn : CutFadeInChoices,
                fadeOut : CutFadeOutChoices]]

InitFadeWindow ==
    /\ InitApp
    /\ call \in FadeWindowCalls
    /\ ret = NoRet

CallFadeWindows ==
    /\ call.fn = "fadeWindows"
    /\ ~ret.done
    /\ ret' = [done |-> TRUE,
               value |-> [preview |-> previewFadeWindows(call.segment),
                          export |-> exportFadeWindows(call.segment)]]
    /\ UNCHANGED <<call, appVars>>

NextFadeWindow == CallFadeWindows

SpecFadeWindow == InitFadeWindow /\ [][NextFadeWindow]_vars

----------------------------------------------------------------------------
(* The bar count of the planner for a requested clip length: what
   applyAutoSyncSettings passes on and what autoSyncClips makes of it.  A
   requested value is finite, in quarters of a bar, or NaN or an infinity *)

\* preferredBars: number = 4
DefaultPreferredBars == [finite |-> TRUE, quarters |-> 16]

RequestedBarsChoices ==
    { [kind |-> k, quarters |-> 0] : k \in {"NaN", "Infinity", "-Infinity"} } \cup
    { [kind |-> "finite", quarters |-> q] : q \in -12..60 }

BarsCalls ==
    { [fn |-> "sanitizedBars", given |-> TRUE, autoSyncBars |-> b] :
        b \in RequestedBarsChoices }
    \cup { [fn |-> "sanitizedBars", given |-> FALSE,
            autoSyncBars |-> [kind |-> "NaN", quarters |-> 0]] }

InitBars ==
    /\ InitApp
    /\ call \in BarsCalls
    /\ ret = NoRet

\* sanitizedBars of the call applyAutoSyncSettings makes, or of a call
\* without the argument
CallSanitizedBars ==
    /\ call.fn = "sanitizedBars"
    /\ ~ret.done
    /\ ret' = [done |-> TRUE,
               value |-> IF call.given
                         THEN SanitizedBars(ClampedBars(call.autoSyncBars))
                         ELSE SanitizedBars(DefaultPreferredBars)]
    /\ UNCHANGED <<call, appVars>>

NextBars == CallSanitizedBars

SpecBars == InitBars /\ [][NextBars]_vars

----------------------------------------------------------------------------
(* electron/ffmpeg.ts: ipcMain.on("ffmpeg:cancel").  The message has no
   reply; kill() sends SIGTERM to a process that runs and does nothing to one
   that was never started *)

ffmpegCancel(jobId) ==
    /\ IF activeJobs[jobId] = NoChild
       THEN UNCHANGED children
       ELSE children' = [children EXCEPT ![activeJobs[jobId]].signalled =
                                             children[activeJobs[jobId]].running]
    /\ UNCHANGED <<call, ret, clips, tracks, beatGrid, introSkipFrames, duration,
                   selectedSegmentId, selectedMediaClipId, mediaClipBars, swapMode,
                   swapSourceId, masterAudioBuffer, transportVars, exportVars,
                   activeJobs, ffmpegRunInvokes, last, steps,
                   proxyVars>>

NextCancel ==
    \/ \E jobId \in JobIdChoices : runFfmpeg(jobId)
    \/ \E spawned \in SpawnChoices : startFfmpeg(spawned)
    \/ \E pid \in 1..MaxRuns : childError(pid)
    \/ \E pid \in 1..MaxRuns, exit \in ExitChoices \cup {FailedSpawnExit} :
           childClose(pid, exit)
    \/ \E jobId \in JobIdChoices : ffmpegCancel(jobId)

SpecCancel == Init /\ [][NextCancel]_vars

----------------------------------------------------------------------------
(* App.tsx: proxy generation.  startProxyGeneration and
   startReverseProxyGeneration run to their await in one step and continue
   when the promise of runProxy settles; clips are files of the Electron app
   and saved projects hold clips without proxies *)

\* what the promise of runProxy settles with: exit code 0, a failed or
\* killed render, a rejection
ProxyOutcomeChoices == {"ok", "failed", "thrown"}

\* uuidv4() and runProxy({jobId, ...})
ProxyRun(clipId, reverse) ==
    [clipId |-> clipId, reverse |-> reverse, settled |-> FALSE, cancelSent |-> FALSE]

startProxyGeneration(clipId) ==
    /\ clipId \in ClipIds(clips)
    /\ Len(proxyRuns) < MaxRuns
    /\ IF /\ ClipById(clips, clipId).type = "video"
          /\ ~proxyPaths[clipId].proxyPath
          /\ proxyJobsRef[clipId] = NoJob
          /\ reverseProxyJobsRef[clipId] = NoJob
       THEN /\ proxyJobsRef' = [proxyJobsRef EXCEPT ![clipId] = Len(proxyRuns) + 1]
            /\ proxyRuns' = Append(proxyRuns, ProxyRun(clipId, FALSE))
       ELSE UNCHANGED <<proxyJobsRef, proxyRuns>>
    /\ Ran("startProxy", clipId, 0, 0, 0)
    /\ UNCHANGED <<call, ret, clips, tracks, beatGrid, introSkipFrames, duration,
                   selectedSegmentId, selectedMediaClipId, mediaClipBars, swapMode,
                   swapSourceId, masterAudioBuffer, transportVars, jobVars, exportVars,
                   reverseProxyJobsRef, proxyPaths>>

startReverseProxyGeneration(clipId) ==
    /\ clipId \in ClipIds(clips)
    /\ Len(proxyRuns) < MaxRuns
    /\ IF /\ ClipById(clips, clipId).type = "video"
          /\ ~proxyPaths[clipId].reverseProxyPath
          /\ reverseProxyJobsRef[clipId] = NoJob
          /\ proxyJobsRef[clipId] = NoJob
       THEN /\ reverseProxyJobsRef' =
                  [reverseProxyJobsRef EXCEPT ![clipId] = Len(proxyRuns) + 1]
            /\ proxyRuns' = Append(proxyRuns, ProxyRun(clipId, TRUE))
       ELSE UNCHANGED <<reverseProxyJobsRef, proxyRuns>>
    /\ Ran("startReverseProxy", clipId, 0, 0, 0)
    /\ UNCHANGED <<call, ret, clips, tracks, beatGrid, introSkipFrames, duration,
                   selectedSegmentId, selectedMediaClipId, mediaClipBars, swapMode,
                   swapSourceId, masterAudioBuffer, transportVars, jobVars, exportVars,
                   proxyJobsRef, proxyPaths>>

\* either function from its await on: the result, the catch, the finally
proxySettled(jobId, outcome) ==
    /\ jobId \in 1..Len(proxyRuns)
    /\ ~proxyRuns[jobId].settled
    /\ LET clipId == proxyRuns[jobId].clipId
           reverse == proxyRuns[jobId].reverse
       IN /\ proxyPaths' =
                IF outcome = "ok" /\ clipId \in ClipIds(clips)
                THEN IF reverse
                     THEN [proxyPaths EXCEPT ![clipId].reverseProxyPath = TRUE]
                     ELSE [proxyPaths EXCEPT ![clipId].proxyPath = TRUE]
                ELSE proxyPaths
          /\ IF reverse
             THEN /\ reverseProxyJobsRef' = [reverseProxyJobsRef EXCEPT ![clipId] = NoJob]
                  /\ UNCHANGED proxyJobsRef
             ELSE /\ proxyJobsRef' = [proxyJobsRef EXCEPT ![clipId] = NoJob]
                  /\ UNCHANGED reverseProxyJobsRef
    /\ proxyRuns' = [proxyRuns EXCEPT ![jobId].settled = TRUE]
    /\ UNCHANGED <<call, ret, clips, tracks, beatGrid, introSkipFrames, duration,
                   selectedSegmentId, selectedMediaClipId, mediaClipBars, swapMode,
                   swapSourceId, masterAudioBuffer, transportVars, jobVars, exportVars,
                   last, steps>>

\* a saved project that holds the video clip of id 1
ProxyPayloadChoices == { ExportProject(<<ExportClipA>>, <<>>, <<>>, 0) }

NextProxy ==
    \/ \E file \in VideoFileChoices :
           handleImport(FALSE, file[1], file[2], 120, 0)
    \/ \E clipId \in 1..MaxClips : startProxyGeneration(clipId)
    \/ \E clipId \in 1..MaxClips : startReverseProxyGeneration(clipId)
    \/ \E jobId \in 1..MaxRuns, outcome \in ProxyOutcomeChoices :
           proxySettled(jobId, outcome)
    \/ \E id \in 1..MaxClips : handleDeleteClip(id)
    \/ handleNewProject
    \/ \E payload \in ProxyPayloadChoices : applyProjectPayload(payload)

SpecProxy == Init /\ [][NextProxy]_vars

----------------------------------------------------------------------------
(* autoSyncClips, one pass of its while-loop at a time: ret holds beatIndex
   and segments between two passes *)

AfterGlitch_same(beatIndex) == beatIndex

\* beatIndex += 1; continue
AfterGlitch(beatIndex) == beatIndex + 1

\* one pass through the body of the while-loop: whether it leaves the loop
\* (break), and beatIndex and segments after it
SyncIteration(orderedClips, beats, allowed, adjustment, totalDuration, beatIndex, segments) ==
    LET startTime == beats[beatIndex + 1]
        segmentIndex == Len(segments)
        clip == orderedClips[(segmentIndex % Len(orderedClips)) + 1]
        fit == FirstFit(allowed, beatIndex, adjustment, Len(beats))
        fallbackIndex ==
            beatIndex + AdjustedBeatLength(beatIndex, BEATS_PER_BAR, adjustment)
        chosenEndBeatIndex == IF fit < 0 THEN fallbackIndex ELSE fit
    IN IF fit < 0 /\ fallbackIndex >= Len(beats)
       THEN [stop |-> TRUE, beatIndex |-> beatIndex, segments |-> segments]
       ELSE
         LET endTime == beats[chosenEndBeatIndex + 1]
             segDuration == endTime - startTime
             pushed == Append(segments,
                              [id |-> segmentIndex + 1,
                               sourceClipId |-> clip.id,
                               timelineStart |-> startTime,
                               duration |-> segDuration,
                               sourceStartOffset |-> 0])
         IN IF IsGlitch(segDuration)
            THEN [stop |-> FALSE, beatIndex |-> AfterGlitch(beatIndex),
                  segments |-> segments]
            ELSE IF startTime > totalDuration
            THEN [stop |-> TRUE, beatIndex |-> beatIndex, segments |-> pushed]
            ELSE [stop |-> FALSE, beatIndex |-> chosenEndBeatIndex,
                  segments |-> pushed]

InLoop == ~ret.done /\ "beatIndex" \in DOMAIN ret

\* the call up to the first test of the loop condition
EnterSyncLoop ==
    /\ call.fn = "autoSyncClips"
    /\ ret = NoRet
    /\ ret' = IF NothingToSync(OrderClipsByName(call.clips), call.grid.beats)
              THEN [done |-> TRUE, value |-> <<>>]
              ELSE [done |-> FALSE, beatIndex |-> 0, segments |-> <<>>]
    /\ UNCHANGED <<call, appVars>>

\* the test of the loop condition and, when it holds, one pass of the body
SyncLoopStep ==
    /\ call.fn = "autoSyncClips"
    /\ InLoop
    /\ ret' =
         IF ~(ret.beatIndex < Len(call.grid.beats) - 1)
         THEN [done |-> TRUE, value |-> ret.segments]
         ELSE LET pass == SyncIteration(OrderClipsByName(call.clips), call.grid.beats,
                                        AllowedBarLengths(call.preferredBars),
                                        FirstSegmentBeatAdjustment(call.grid),
                                        call.totalDuration, ret.beatIndex, ret.segments)
              IN IF pass.stop
                 THEN [done |-> TRUE, value |-> pass.segments]
                 ELSE [done |-> FALSE, beatIndex |-> pass.beatIndex,
                       segments |-> pass.segments]
    /\ UNCHANGED <<call, appVars>>

NextSyncLoop == EnterSyncLoop \/ SyncLoopStep

\* the call runs on once it has been made
SpecSyncLoop == InitSync /\ [][NextSyncLoop]_vars /\ WF_vars(NextSyncLoop)

----------------------------------------------------------------------------
(* Claims *)

\* C1: the beats returned by buildBeatGrid are strictly increasing, so without
\* duplicates, and none is negative, for every bpm > 0, every offset and every
\* duration >= 0.
C1_BeatsStrictlyIncreasingNonNegative ==
    (call.fn = "buildBeatGrid" /\ ret.done) =>
        LET beats == ret.value.beats
        IN /\ \A i \in 1..Len(beats) : beats[i] >= 0
           /\ \A i \in 1..(Len(beats) - 1) : beats[i] < beats[i + 1]

\* a grid returned for a negative offset in which backfilled steps collapsed to 0
C1_Witness ==
    /\ call.fn = "buildBeatGrid"
    /\ ret.done
    /\ call.offset < 0
    /\ Len(ret.value.beats) >= 2
    /\ Len(buildBeatGrid_keepDuplicates(call.bpm, call.offset, call.durationSec).beats)
           > Len(ret.value.beats)

\* C2: the segments autoSyncClips returns do not overlap, each ending no later
\* than the next one starts, and each is at least 100 ms long.
C2_PlannerSegmentsDisjointAndLong ==
    (call.fn = "autoSyncClips" /\ ret.done) =>
        LET segs == ret.value
        IN /\ \A i \in 1..Len(segs) : segs[i].duration >= 100
           /\ \A i \in 1..(Len(segs) - 1) :
                  segs[i].timelineStart + segs[i].duration <= segs[i + 1].timelineStart
           /\ \A i, j \in 1..Len(segs) :
                  i < j => segs[i].timelineStart + segs[i].duration <= segs[j].timelineStart

\* the planner skipped a leading interval shorter than 100 ms and went on to
\* emit two segments
C2_Witness ==
    /\ call.fn = "autoSyncClips"
    /\ ret.done
    /\ Len(call.grid.beats) >= 2
    /\ call.grid.beats[2] - call.grid.beats[1] < 100
    /\ Len(ret.value) >= 1
    /\ ret.value[1].timelineStart > call.grid.beats[1]

\* segments a and b share no instant of [timelineStart, timelineStart + duration)
Disjoint(a, b) ==
    \/ a.timelineStart + a.duration <= b.timelineStart
    \/ b.timelineStart + b.duration <= a.timelineStart

NoOverlap(segments) ==
    \A i, j \in 1..Len(segments) : i # j => Disjoint(segments[i], segments[j])

\* C3: after any sequence of resize, remove, add-to-timeline, swap and clip
\* deletion, starting from an empty track or from the planner's output, no two
\* segments of one track overlap.
C3_NoOverlapOnAnyTrack ==
    \A i \in 1..Len(tracks) : NoOverlap(tracks[i].segments)

\* a segment was just made longer while a later segment stood on its track
C3_Witness ==
    /\ last.op = "resize"
    /\ last.id \in SegmentIds(FlatSegments(tracks))
    /\ LET seg == SegmentById(FlatSegments(tracks), last.id)
           track == tracks[TrackIndexOf(tracks, last.id)]
       IN /\ seg.duration > last.old
          /\ \E k \in 1..Len(track.segments) :
                 track.segments[k].timelineStart = seg.timelineStart + seg.duration

\* the step is a resize: updateDurationMs went on to handleUpdateSegment
ResizeStep == last'.op = "resize" /\ steps' = steps + 1

\* C4: a resize with a finite requested duration leaves the number of segments
\* of every track unchanged, and gives the segment a duration >= 1 and a
\* sourceStartOffset within [0, duration of its clip].
C4_ResizeKeepsCountAndRanges ==
    [][ResizeStep =>
          /\ Len(tracks') = Len(tracks)
          /\ \A i \in 1..Len(tracks) :
                 Len(tracks'[i].segments) = Len(tracks[i].segments)
          /\ LET seg == SegmentById(FlatSegments(tracks'), last'.id)
             IN /\ seg.duration >= 1
                /\ seg.sourceStartOffset >= 0
                /\ seg.sourceStartOffset <= ClipById(clips, seg.sourceClipId).duration
      ]_vars

\* a requested duration below 1 was raised to 1
C4_Witness ==
    /\ last.op = "resize"
    /\ last.arg < 1
    /\ last.id \in SegmentIds(FlatSegments(tracks))
    /\ SegmentById(FlatSegments(tracks), last.id).duration = 1
    /\ Len(FlatSegments(tracks)) >= 2

\* C5: when a segment's duration changes from old to new, the segments later
\* than it on its track move by exactly new - old; its own timelineStart, the
\* earlier segments of the track and the other tracks do not change.
C5_ResizeShiftsExactlyLaterSegments ==
    [][ResizeStep =>
          LET ti == TrackIndexOf(tracks, last'.id)
              before == tracks[ti].segments
              after == tracks'[ti].segments
              target == SegmentById(before, last'.id)
              delta == SegmentById(after, last'.id).duration - target.duration
          IN /\ \A i \in 1..Len(tracks) : i # ti => tracks'[i] = tracks[i]
             /\ Len(after) = Len(before)
             /\ \A k \in 1..Len(before) :
                    /\ after[k].id = before[k].id
                    /\ after[k].timelineStart =
                           IF before[k].timelineStart > target.timelineStart
                           THEN before[k].timelineStart + delta
                           ELSE before[k].timelineStart
      ]_vars

\* a segment with an earlier and a later neighbour changed its duration
C5_Witness ==
    /\ last.op = "resize"
    /\ last.id \in SegmentIds(FlatSegments(tracks))
    /\ LET seg == SegmentById(FlatSegments(tracks), last.id)
           track == tracks[TrackIndexOf(tracks, last.id)]
       IN /\ seg.duration # last.old
          /\ \E k \in 1..Len(track.segments) :
                 track.segments[k].timelineStart > seg.timelineStart
          /\ \E k \in 1..Len(track.segments) :
                 track.segments[k].timelineStart < seg.timelineStart

\* each segment starts where the previous one, in timeline order, ends
Packed(segments) ==
    LET ordered == OrderedSegments(segments)
    IN \A k \in 1..(Len(ordered) - 1) :
           ordered[k + 1].timelineStart = ordered[k].timelineStart + ordered[k].duration

RemoveStep == last'.op = "remove" /\ steps' = steps + 1

\* C6: removing a segment deletes exactly that segment, moves the later
\* segments of its track earlier by its duration and leaves earlier segments
\* and other tracks unchanged; a packed track stays packed.
C6_RemoveDeletesAndClosesGap ==
    [][RemoveStep =>
          LET ti == TrackIndexOf(tracks, last'.id)
              before == tracks[ti].segments
              after == tracks'[ti].segments
              target == SegmentById(before, last'.id)
              Kept(seg) == seg.id # last'.id
              kept == SelectSeq(before, Kept)
          IN /\ \A i \in 1..Len(tracks) : i # ti => tracks'[i] = tracks[i]
             /\ Len(kept) = Len(before) - 1
             /\ Len(after) = Len(kept)
             /\ \A k \in 1..Len(kept) :
                    after[k] =
                        IF kept[k].timelineStart > target.timelineStart
                        THEN [kept[k] EXCEPT
                                 !.timelineStart = kept[k].timelineStart - target.duration]
                        ELSE kept[k]
             /\ Packed(before) => Packed(after)
      ]_vars

\* a segment between two others was removed and the later one took its place
C6_Witness ==
    /\ last.op = "remove"
    /\ \E i \in 1..Len(tracks) :
           /\ Packed(tracks[i].segments)
           /\ \E k \in 1..Len(tracks[i].segments) :
                  tracks[i].segments[k].timelineStart = last.old
           /\ \E k \in 1..Len(tracks[i].segments) :
                  tracks[i].segments[k].timelineStart < last.old

\* arguments clampOffsetForClip is tried on in every state
ClampClipIdChoices == 0..(MaxClips + 1)
ClampDurationChoices == {1, 1500, 8000, 9000, 16000}
ClampOffsetChoices == {-300, 0, 700, 1000, 7500, 8999}

\* C7: clampOffsetForClip returns min(max(0, requested), max(0, clipDuration -
\* duration)): the result r is >= 0, r + duration <= clipDuration whenever
\* clipDuration >= duration, and r = 0 whenever the clip is shorter than the
\* duration or is not found.
C7_ClampOffsetResult ==
    \A clipId \in ClampClipIdChoices, d \in ClampDurationChoices,
       requested \in ClampOffsetChoices :
        LET r == clampOffsetForClip(clipId, d, requested)
            found == clipId \in ClipIds(clips)
            clipDuration == IF found THEN ClipById(clips, clipId).duration ELSE 0
        IN /\ r >= 0
           /\ (found /\ clipDuration >= d) =>
                  /\ r + d <= clipDuration
                  /\ r = IF requested < 0 THEN 0
                         ELSE IF requested > clipDuration - d THEN clipDuration - d
                         ELSE requested
           /\ (~found \/ clipDuration < d) => r = 0

\* a swap just ran the clamp and the clamp lowered the offset it was given
C7_Witness ==
    /\ last.op = "selectSegment"
    /\ last.arg = 1
    /\ last.id \in SegmentIds(FlatSegments(tracks))
    /\ SegmentById(FlatSegments(tracks), last.id).sourceStartOffset < last.old2
    /\ \E i \in 1..Len(clips), k \in 1..Len(FlatSegments(tracks)) :
           clips[i].duration < FlatSegments(tracks)[k].duration

\* C8: after any sequence of planner output, add-to-timeline, resize, slip
\* and swap, every video segment whose clip is at least as long as the segment
\* has sourceStartOffset >= 0 and sourceStartOffset + duration <= clipDuration.
C8_OffsetsWithinClip ==
    \A i \in 1..Len(tracks) :
        tracks[i].type = "video" =>
            \A k \in 1..Len(tracks[i].segments) :
                LET seg == tracks[i].segments[k]
                IN (/\ seg.sourceClipId \in ClipIds(clips)
                    /\ ClipById(clips, seg.sourceClipId).duration >= seg.duration) =>
                       /\ seg.sourceStartOffset >= 0
                       /\ seg.sourceStartOffset + seg.duration
                              <= ClipById(clips, seg.sourceClipId).duration

\* a resize just lowered the offset of a slipped segment that still fits its clip
C8_Witness ==
    /\ last.op = "resize"
    /\ last.id \in SegmentIds(tracks[1].segments)
    /\ LET seg == SegmentById(tracks[1].segments, last.id)
       IN /\ last.old2 > seg.sourceStartOffset
          /\ seg.sourceClipId \in ClipIds(clips)
          /\ ClipById(clips, seg.sourceClipId).duration >= seg.duration

\* the step is a call of handleSwapSegments(swapSourceId, id) from
\* handleSelectSegment(id)
SwapStep == last'.op = "selectSegment" /\ last'.arg = 1 /\ steps' = steps + 1

\* C9: a swap of two segments on tracks of the same type exchanges their
\* sourceClipId, keeps their ids, timelineStart and duration, and leaves each
\* sourceStartOffset within [0, max(0, newClipDuration - ownDuration)].
C9_SwapExchangesClipsAndClamps ==
    [][SwapStep =>
          LET sourceId == swapSourceId
              targetId == last'.id
              sourceBefore == SegmentById(FlatSegments(tracks), sourceId)
              targetBefore == SegmentById(FlatSegments(tracks), targetId)
              sourceAfter == SegmentById(FlatSegments(tracks'), sourceId)
              targetAfter == SegmentById(FlatSegments(tracks'), targetId)
              InRange(seg) ==
                  LET newClipDuration ==
                          IF seg.sourceClipId \in ClipIds(clips)
                          THEN ClipById(clips, seg.sourceClipId).duration ELSE 0
                  IN /\ seg.sourceStartOffset >= 0
                     /\ seg.sourceStartOffset <= Max(0, newClipDuration - seg.duration)
                     /\ newClipDuration >= seg.duration =>
                            seg.sourceStartOffset + seg.duration <= newClipDuration
          IN /\ tracks[TrackIndexOf(tracks, sourceId)].type
                    = tracks[TrackIndexOf(tracks, targetId)].type
             /\ sourceAfter.sourceClipId = targetBefore.sourceClipId
             /\ targetAfter.sourceClipId = sourceBefore.sourceClipId
             /\ sourceAfter.timelineStart = sourceBefore.timelineStart
             /\ targetAfter.timelineStart = targetBefore.timelineStart
             /\ sourceAfter.duration = sourceBefore.duration
             /\ targetAfter.duration = targetBefore.duration
             /\ SegmentIds(FlatSegments(tracks')) = SegmentIds(FlatSegments(tracks))
             /\ InRange(sourceAfter)
             /\ InRange(targetAfter)
      ]_vars

\* two segments that referred to different clips were just swapped
C9_Witness ==
    /\ last.op = "selectSegment"
    /\ last.arg = 1
    /\ {last.id, last.old} \subseteq SegmentIds(FlatSegments(tracks))
    /\ SegmentById(FlatSegments(tracks), last.id).sourceClipId
           # SegmentById(FlatSegments(tracks), last.old).sourceClipId

\* in swap mode, the segment id and the swap source lie on tracks of different type
CrossTypeTarget(id) ==
    /\ swapMode
    /\ swapSourceId # null
    /\ id # swapSourceId
    /\ TrackIndexOf(tracks, swapSourceId) # 0
    /\ TrackIndexOf(tracks, id) # 0
    /\ tracks[TrackIndexOf(tracks, swapSourceId)].type
           # tracks[TrackIndexOf(tracks, id)].type

\* C10: in swap mode, choosing a target on a track of another type than the
\* swap source swaps nothing: tracks, selection and swap mode stay as they are.
C10_CrossTypeSwapIsRefused ==
    [][(last'.op = "selectSegment" /\ steps' = steps + 1 /\ CrossTypeTarget(last'.id)) =>
          /\ tracks' = tracks
          /\ selectedSegmentId' = selectedSegmentId
          /\ selectedMediaClipId' = selectedMediaClipId
          /\ swapMode' = swapMode
          /\ swapSourceId' = swapSourceId
      ]_vars

\* a target on a track of another type was just chosen in swap mode
C10_Witness ==
    /\ last.op = "selectSegment"
    /\ last.arg = 0
    /\ CrossTypeTarget(last.id)

C12_CurrentTimeBelowDuration ==
    playbackState.isPlaying =>
        /\ playbackState.currentTime >= 0
        /\ playbackState.currentTime < duration

\* C13: getFadeAlpha returns an alpha within [0, 1]; it returns 1 when both
\* fades are disabled; with an enabled fade-in window [s, e], s < e, and no
\* fade-out it returns 0 at local times <= s, 1 at local times >= e, and at
\* no earlier local time a larger alpha.
C13_FadeAlpha ==
    (call.fn = "getFadeAlpha" /\ ret.done) =>
        LET fadeIn == FadeOrDefault(call.segment.fadeIn, defaultFadeIn)
            fadeOut == FadeOrDefault(call.segment.fadeOut, defaultFadeOut)
            alpha == ret.value
        IN /\ alpha.den > 0
           /\ FracLeq(FracZero, alpha)
           /\ FracLeq(alpha, FracOne)
           /\ (~fadeIn.enabled /\ ~fadeOut.enabled) => alpha = FracOne
           /\ (fadeIn.enabled /\ ~fadeOut.enabled /\ fadeIn.startMs < fadeIn.endMs) =>
                  /\ call.localTimeMs <= fadeIn.startMs => alpha = FracZero
                  /\ call.localTimeMs >= fadeIn.endMs => alpha = FracOne
                  /\ \A t \in FadeLocalTimes(call.segment) :
                         t <= call.localTimeMs =>
                             FracLeq(getFadeAlpha(call.segment, t), alpha)

\* half way through the fade-in window [200, 500] the alpha is 1/6
C13_Witness ==
    /\ call.fn = "getFadeAlpha"
    /\ ret.done
    /\ call.segment.fadeIn = [present |-> TRUE, enabled |-> TRUE,
                              startMs |-> 200, endMs |-> 500]
    /\ ~FadeOrDefault(call.segment.fadeOut, defaultFadeOut).enabled
    /\ call.localTimeMs = 250
    /\ ret.value = [num |-> 50, den |-> 300]

\* the segments of a call that are rendered, in the order they are processed
RenderedOf(c) ==
    LET Has(segment) == HasInput(segment, c.clips)
    IN SelectSeq(sortedSegments(c.videoSegments), Has)

FracEq(a, b) == a.num * b.den = b.num * a.den

\* C15: the export puts the audio on the timeline of the preview: for a
\* negative, zero or positive intro skip and every timeline time t inside the
\* output at which the preview has audio, the input position the delay, pad
\* and trim chain plays at t is the position the preview transport plays at
\* t, and the exported audio is as long as the computed output duration.
C15_ExportAudioMatchesPreview ==
    (call.fn = "exportArgs" /\ ret.done /\ ret.value.audio.mapped) =>
        /\ FracEq(ExportAudioLength(ret.value.audio), ret.value.durationSec)
        /\ \A t \in ExportTimeChoices :
             ( /\ t * ret.value.durationSec.den < ret.value.durationSec.num
               /\ PreviewHasAudioAt(t, call.introSkipFrames, call.audioClip.duration) ) =>
                 /\ ~ExportAudioAt(ret.value.audio, t).silent
                 /\ FracEq(ExportAudioAt(ret.value.audio, t).position,
                           startAudioAt(t, call.introSkipFrames, call.audioClip.duration))

\* ms converted to frames at the target rate is within 1e-3 of a whole number
NearWholeFrames(ms) ==
    \E n \in 0..(((ms * DEFAULT_FPS) \div 1000) + 1) :
        /\ ms * DEFAULT_FPS - 1000 * n <= FrameEpsilon
        /\ 1000 * n - ms * DEFAULT_FPS <= FrameEpsilon

\* a duration in ms, as a fraction, is a whole number of frames
WholeFrames(d) == (d.num * DEFAULT_FPS) % (d.den * 1000) = 0

\* C16: the export is constant-frame-rate (fps filter, cfr sync at the target
\* rate, total duration rounded to a whole number of frames) exactly when the
\* timelineStart and the duration of every video segment, in frames at the
\* target rate, are within 1e-3 of an integer; otherwise it is
\* variable-frame-rate with the unrounded total duration.
C16_CfrExactlyWhenFrameAligned ==
    (call.fn = "exportArgs" /\ ret.done) =>
        LET aligned == \A i \in 1..Len(call.videoSegments) :
                          /\ NearWholeFrames(call.videoSegments[i].timelineStart)
                          /\ NearWholeFrames(call.videoSegments[i].duration)
            total == ret.value.outputDurationSec
            target == ret.value.durationSec
        IN IF aligned
           THEN /\ ret.value.video.fps
                /\ ret.value.video.vsync = "cfr"
                /\ ret.value.video.r = DEFAULT_FPS
                /\ WholeFrames(target)
                /\ (target.den * total - target.num) * 2 * DEFAULT_FPS <= 1000 * target.den
                /\ (target.num - target.den * total) * 2 * DEFAULT_FPS <= 1000 * target.den
                /\ ret.value.video.trim.duration = target
           ELSE /\ ~ret.value.video.fps
                /\ ret.value.video.vsync = "vfr"
                /\ target = [num |-> total, den |-> 1]
                /\ ret.value.video.trim.duration = target

\* a variable-frame-rate export whose total is not a whole number of frames,
\* one of its segments being skipped
C16_Witness ==
    /\ call.fn = "exportArgs" /\ ret.done
    /\ ret.value.video.vsync = "vfr"
    /\ ~WholeFrames(ret.value.durationSec)
    /\ Len(ret.value.concat) < Len(call.videoSegments)

\* the processes spawned for a job id that are running
RunningFor(jobId) ==
    { pid \in 1..Len(children) : children[pid].jobId = jobId /\ children[pid].running }

\* the main process handles a run request whose job id has a running process
DuplicateRunStep ==
    /\ NextInvoke # 0
    /\ ffmpegRunInvokes'[NextInvoke].handled
    /\ RunningFor(ffmpegRunInvokes[NextInvoke].jobId) # {}

\* C17: for every job id at most one process is running at any time, and it is
\* the one registered for the job id: a run request whose job id is active is
\* rejected with an error, without a process being spawned and without the
\* running job being touched, whatever the order of run requests, close
\* events and error events.
C17_OneJobPerId ==
    [][ /\ \A jobId \in JobIds :
             /\ Cardinality(RunningFor(jobId)') <= 1
             /\ \A pid \in RunningFor(jobId)' : activeJobs'[jobId] = pid
        /\ DuplicateRunStep =>
             /\ ffmpegRunInvokes'[NextInvoke].reply.kind = "rejected"
             /\ children' = children
             /\ activeJobs' = activeJobs ]_vars

\* handleExport continues with a result that has a non-zero or null exit code
\* or a signal
FailedResultStep ==
    /\ exportJob.awaiting
    /\ last'.op = "exportSettled" /\ steps' = steps + 1
    /\ ffmpegRunInvokes[exportJob.invoke].reply.kind = "resolved"
    /\ \/ ffmpegRunInvokes[exportJob.invoke].reply.exitCode # 0
       \/ ffmpegRunInvokes[exportJob.invoke].reply.signal # NoSignal

\* C18: when the renderer's result has a non-zero or null exit code or a
\* signal, the export ends in an error state: exportError becomes a message
\* that carries the exit code and the signal, or the out-of-memory message
\* when the signal is SIGKILL; the step does not set the progress to 100, the
\* dialog stays open and the export is over; and a run request is only ever
\* sent by the Export button, never by the handling of a result.
C18_FailedRunIsSurfacedNotRetried ==
    [][ /\ FailedResultStep =>
             LET reply == ffmpegRunInvokes[exportJob.invoke].reply
             IN /\ exportError' # NoError
                /\ IF reply.signal = "SIGKILL"
                   THEN exportError'.kind = "Export failed (SIGKILL). The OS likely ran out of memory."
                   ELSE /\ exportError'.kind = "Export failed (ffmpeg code, signal)"
                        /\ exportError'.signal = reply.signal
                        /\ exportError'.exitCode =
                             (IF reply.exitCode = NullExitCode THEN "unknown"
                              ELSE ToString(reply.exitCode))
                /\ exportProgress' = exportProgress
                /\ exportOpen /\ exportOpen'
                /\ ~exporting'
                /\ ffmpegRunInvokes' = ffmpegRunInvokes
        /\ Len(ffmpegRunInvokes') > Len(ffmpegRunInvokes) =>
             last'.op = "export" /\ steps' = steps + 1 ]_vars

\* an export that ffmpeg ended with SIGKILL, its message shown in the open dialog
C18_Witness ==
    /\ last.op = "exportSettled"
    /\ exportError = [kind |-> "Export failed (SIGKILL). The OS likely ran out of memory."]
    /\ exportOpen
    /\ ~exporting
    /\ Len(ffmpegRunInvokes) = 1
    /\ ffmpegRunInvokes[1].reply.kind = "resolved"
    /\ ffmpegRunInvokes[1].reply.signal = "SIGKILL"

\* the video track has no segment whose clip is in the pool
NoValidSegment ==
    \A i \in 1..Len(tracks) :
        tracks[i].type = "video" =>
            \A k \in 1..Len(tracks[i].segments) :
                tracks[i].segments[k].sourceClipId \notin ClipIds(clips)

\* C19: when the video track has no segments, or none whose source clip is
\* still in the clip pool, the Export button sets an error message and
\* returns: no run request is sent and no export is left running.
C19_NothingToExportSendsNoRequest ==
    [][ (last'.op = "export" /\ steps' = steps + 1 /\ NoValidSegment) =>
            /\ exportError' # NoError
            /\ ffmpegRunInvokes' = ffmpegRunInvokes
            /\ exportJob' = NoExportJob
            /\ ~exporting' ]_vars

\* Export was pressed on a project whose only video segment has lost its clip
C19_Witness ==
    /\ last.op = "export"
    /\ NoValidSegment
    /\ \E i \in 1..Len(tracks) : tracks[i].type = "video" /\ tracks[i].segments # <<>>
    /\ exportError = [kind |-> "No valid video segments to export."]
    /\ ffmpegRunInvokes = <<>>

\* C20: autoSyncClips returns an empty segment list, and does not throw,
\* whenever the clip list is empty or the beat grid has no beats.
C20_NothingToSyncGivesEmptyList ==
    (call.fn = "autoSyncClips" /\ ret.done
        /\ (Len(call.clips) = 0 \/ Len(call.grid.beats) = 0)) =>
        /\ ret.value # TypeError
        /\ ret.value = <<>>

\* a call without clips on a grid that has intervals to fill
C20_Witness ==
    /\ call.fn = "autoSyncClips" /\ ret.done
    /\ Len(call.clips) = 0
    /\ Len(call.grid.beats) >= 2
    /\ ret.value = <<>>

\* a.name comes before b.name in natural numeric order
NaturalBefore(a, b) ==
    \/ a.name[1] < b.name[1]
    \/ a.name[1] = b.name[1] /\ a.name[2] < b.name[2]

\* the number of clips of the list whose name comes before the name of c
NameRank(clipList, c) ==
    Cardinality({ i \in 1..Len(clipList) : NaturalBefore(clipList[i], c) })

\* two clips, preferredBars = 1, a grid of 120 BPM without offset whose beats
\* are 0.5 s apart
TwoClipScenario ==
    /\ Len(call.clips) = 2
    /\ call.preferredBars = [finite |-> TRUE, quarters |-> 4]
    /\ call.grid.bpm = 120
    /\ call.grid.offset = 0
    /\ \A i \in 1..(Len(call.grid.beats) - 1) :
           call.grid.beats[i + 1] - call.grid.beats[i] = 500

\* C21: the k-th segment autoSyncClips emits (k = 0, 1, 2, ...) references the
\* clip that has k mod n clips before it in natural numeric name order, and
\* every segment has sourceStartOffset 0; with two clips, preferredBars = 1
\* and a 120 BPM grid of beats 0.5 s apart, every segment is 2000 ms long and
\* consecutive segments reference different clips.
C21_RoundRobinOverClipsByName ==
    (call.fn = "autoSyncClips" /\ ret.done /\ Len(call.clips) > 0) =>
        /\ \A k \in 1..Len(ret.value) :
             /\ \E i \in 1..Len(call.clips) :
                    /\ call.clips[i].id = ret.value[k].sourceClipId
                    /\ NameRank(call.clips, call.clips[i]) = (k - 1) % Len(call.clips)
             /\ ret.value[k].sourceStartOffset = 0
        /\ TwoClipScenario =>
             /\ \A k \in 1..Len(ret.value) : ret.value[k].duration = 2000
             /\ \A k \in 1..(Len(ret.value) - 1) :
                    ret.value[k].sourceClipId # ret.value[k + 1].sourceClipId

\* the scenario on a grid of 13 beats: three segments, the clips given in
\* the order opposite to the order of their names
C21_Witness ==
    /\ call.fn = "autoSyncClips" /\ ret.done
    /\ TwoClipScenario
    /\ NameRank(call.clips, call.clips[1]) = 1
    /\ Len(ret.value) = 3
    /\ ret.value[1].sourceClipId = call.clips[2].id
    /\ ret.value[2].sourceClipId = call.clips[1].id
    /\ ret.value[3].sourceClipId = call.clips[2].id

\* the 0-based index of the beat at time t, for a time that is a beat
BeatIndexAt(beats, t) == (CHOOSE i \in 1..Len(beats) : beats[i] = t) - 1

\* the beat position a returned segment starts at and the one it ends at
StartBeatIndex(seg) == BeatIndexAt(call.grid.beats, seg.timelineStart)
EndBeatIndex(seg) == BeatIndexAt(call.grid.beats, seg.timelineStart + seg.duration)

\* preferredBars as the planner reads it, in beats
PreferredBeats ==
    IF ~call.preferredBars.finite THEN 4 * BEATS_PER_BAR
    ELSE IF call.preferredBars.quarters <= 4 THEN BEATS_PER_BAR
    ELSE ((call.preferredBars.quarters + 2) \div 4) * BEATS_PER_BAR

\* a length of beatLength beats that starts at beatIndex ends within the grid
Fits(beatIndex, beatLength) == beatIndex + beatLength < Len(call.grid.beats)

\* C22 as stated: every segment has the longest length among preferredBars,
\* 4, 2 and 1 bars whose end beat index lies within the grid.
C22_LongestOfAllCandidates ==
    (call.fn = "autoSyncClips" /\ ret.done /\ Len(call.clips) > 0) =>
        \A k \in 1..Len(ret.value) :
            LET beatIndex == StartBeatIndex(ret.value[k])
                chosen == EndBeatIndex(ret.value[k]) - beatIndex
                candidates == { PreferredBeats, 4 * BEATS_PER_BAR,
                                2 * BEATS_PER_BAR, BEATS_PER_BAR }
            IN /\ chosen \in candidates
               /\ \A longer \in candidates :
                      longer > chosen => ~Fits(beatIndex, longer)

\* the length the first segment has for a candidate of beatLength beats: the
\* beats lost to a negative grid offset are taken off, down to one beat
LengthAt(beatIndex, beatLength) ==
    IF beatIndex = 0
    THEN Max(1, beatLength - FirstSegmentBeatAdjustment(call.grid))
    ELSE beatLength

\* C22, amended: the candidates at a beat position are preferredBars and
\* those of 4, 2 and 1 bars that are shorter than preferredBars (each times
\* beats-per-bar, at the first position less the beats lost to a negative
\* offset); every segment has the longest of these whose end beat index lies
\* within the grid, so a shorter one only when every longer one overruns it.
C22_LongestOfPreferredAndShorter ==
    (call.fn = "autoSyncClips" /\ ret.done /\ Len(call.clips) > 0) =>
        \A k \in 1..Len(ret.value) :
            LET beatIndex == StartBeatIndex(ret.value[k])
                chosen == EndBeatIndex(ret.value[k]) - beatIndex
                candidates ==
                    { beatLength \in { PreferredBeats, 4 * BEATS_PER_BAR,
                                       2 * BEATS_PER_BAR, BEATS_PER_BAR } :
                        beatLength <= PreferredBeats }
            IN \E beatLength \in candidates :
                  /\ chosen = LengthAt(beatIndex, beatLength)
                  /\ Fits(beatIndex, chosen)
                  /\ \A longer \in candidates :
                         longer > beatLength =>
                             ~Fits(beatIndex, LengthAt(beatIndex, longer))

\* preferredBars = 2 on a grid of 13 beats: two bars fit at beat 0, and at
\* beat 8 only one bar does
C22_Witness ==
    /\ call.fn = "autoSyncClips" /\ ret.done
    /\ PreferredBeats = 2 * BEATS_PER_BAR
    /\ Len(call.grid.beats) = 13
    /\ Len(ret.value) = 2
    /\ StartBeatIndex(ret.value[1]) = 0 /\ EndBeatIndex(ret.value[1]) = 8
    /\ StartBeatIndex(ret.value[2]) = 8 /\ EndBeatIndex(ret.value[2]) = 12

\* the grid a full rebuild gives: built from the base offset, the current
\* BPM and the duration, then shifted by the current intro skip
FullRebuild ==
    LET introSkipMs == FramesToMs(introSkipFrames)
    IN ShiftedGrid(buildBeatGrid(beatGrid.bpm, beatGrid.offset - introSkipMs, duration),
                   introSkipMs)

\* C23: after every handleUpdateBpm and handleUpdateIntroSkipFrames call the
\* beat grid equals the grid built from the base offset, the current BPM and
\* the duration and shifted by the current intro skip, whatever edits came
\* before.
C23_TempoEditsRebuildTheGrid ==
    last.op \in {"updateBpm", "updateIntroSkipFrames"} => beatGrid = FullRebuild

\* the ids of the segments currently on some track
LiveSegmentIds == SegmentIds(FlatSegments(tracks))

\* C24: after any sequence of segment selection, swap-mode toggling, swap,
\* segment removal, clip deletion and auto-sync apply, selectedSegmentId and
\* swapSourceId are each null or the id of a segment that is on some track.
C24_NoFreedSegmentIdInUse ==
    /\ selectedSegmentId = null \/ selectedSegmentId \in LiveSegmentIds
    /\ swapSourceId = null \/ swapSourceId \in LiveSegmentIds

\* the intervals between consecutive onsets of the call that lie strictly
\* between 0.3 s and 1.0 s, in ascending order
QualifyingIntervals ==
    LET beatTimes == call.beatTimes
        Qualifies(i) == /\ beatTimes[i + 1] - beatTimes[i] > 300
                        /\ beatTimes[i + 1] - beatTimes[i] < 1000
        at == SelectSeq([i \in 1..(Len(beatTimes) - 1) |-> i], Qualifies)
    IN SortNumeric([k \in 1..Len(at) |-> beatTimes[at[k] + 1] - beatTimes[at[k]]])

\* C25: analyzeBeats reports 120 BPM whenever fewer than two onset intervals
\* lie within the 0.3 s to 1.0 s range, and otherwise the BPM of the median
\* qualifying interval, 60 / median rounded.
C25_DefaultBpmBelowTwoIntervals ==
    (call.fn = "analyzeBeats" /\ ret.done) =>
        IF Len(QualifyingIntervals) < 2
        THEN ret.value = 120
        ELSE \E bpm \in 60..200 :
                /\ ret.value = bpm
                /\ LET median == QualifyingIntervals[(Len(QualifyingIntervals) \div 2) + 1]
                   IN /\ 2 * 60000 >= (2 * bpm - 1) * median
                      /\ 2 * 60000 < (2 * bpm + 1) * median

\* the integer the first k bits of a significand spell
RECURSIVE BitsValue(_, _)
BitsValue(bits, k) == IF k = 0 THEN 0 ELSE 2 * BitsValue(bits, k - 1) + bits[k]

\* floor(x * 2^16) for a number 0 <= x < 2^14
Floor16(x) == BitsValue(x.bits, x.exp + 17)

\* the number of integers k >= 0 with k * 60 / bpm < durationSec
BeatsBelow(bpm, durationSec) ==
    Cardinality({ k \in 0..(durationSec * bpm) : k * 60 < durationSec * bpm })

\* C26: with offset 0, buildBeatGrid(bpm, 0, duration) returns exactly the
\* beats k * 60 / bpm for the integers k >= 0 with k * 60 / bpm < duration:
\* as many beats as there are such k, the k-th of them k * 60 / bpm (to
\* within 2^-16 s), e.g. the 8 beats 0, 0.5, ..., 3.5 for 120 BPM and 4 s.
C26_BeatsAtMultiplesBelowDuration ==
    (call.fn = "buildBeatGridFromZero" /\ ret.done) =>
        /\ Len(ret.value) = BeatsBelow(call.bpm, call.durationSec)
        /\ \A i \in 1..Len(ret.value) :
               LET scaled == Floor16(ret.value[i]) * call.bpm
                   exact == (i - 1) * 60 * 65536
               IN /\ scaled - exact <= call.bpm
                  /\ exact - scaled <= 2 * call.bpm
        /\ (call.bpm = 120 /\ call.durationSec = 4) =>
               /\ Len(ret.value) = 8
               /\ \A i \in 1..8 : Floor16(ret.value[i]) * 2 = (i - 1) * 65536

\* an animation frame ran and set the current time
TickStep == last'.op = "tick" /\ steps' = steps + 1

\* C27: a playback tick is pending only while isPlaying is true: after any
\* sequence of play, pause, seek, new-project and project-load actions, when
\* isPlaying is false no tick is scheduled, and no tick changes currentTime.
C27_TickOnlyWhilePlaying ==
    [][ /\ ~playbackState'.isPlaying => ~animationFrameRef'.scheduled
        /\ (TickStep /\ ~playbackState.isPlaying) =>
               playbackState'.currentTime = playbackState.currentTime ]_vars

\* the segments of the track of segment id that start later than it
LaterOnTrack(trackList, id) ==
    LET ti == TrackIndexOf(trackList, id)
    IN IF ti = 0 THEN {}
       ELSE LET segments == trackList[ti].segments
                target == SegmentById(segments, id)
            IN { i \in 1..Len(segments) :
                   segments[i].timelineStart > target.timelineStart }

\* the id of the next later segment of the track of segment id, or null
NextLaterOnTrack(trackList, id) ==
    LET later == LaterOnTrack(trackList, id)
        segments == trackList[TrackIndexOf(trackList, id)].segments
    IN IF later = {} THEN null
       ELSE segments[CHOOSE i \in later :
                       \A j \in later :
                         segments[i].timelineStart <= segments[j].timelineStart].id

\* C28: when the removed segment is the selected one, the selection moves to
\* the next later segment, by timelineStart, of the same track, or becomes
\* null when there is none; when another segment is selected, removal leaves
\* the selection as it is.
C28_SelectionFallsOver ==
    [][ RemoveStep =>
          IF selectedSegmentId = last'.id
          THEN selectedSegmentId' = NextLaterOnTrack(tracks, last'.id)
          ELSE selectedSegmentId' = selectedSegmentId ]_vars

\* the selected segment was removed and the selection moved to a later one
C28_Witness ==
    /\ last.op = "remove"
    /\ last.arg = 1
    /\ selectedSegmentId # null
    /\ selectedSegmentId # last.id
    /\ selectedSegmentId \in SegmentIds(FlatSegments(tracks))

\* min(requestedRate, (clipDuration - sourceStartOffset) / duration)
MinRate(segment, clip) ==
    LET requested == [num |-> RequestedRate(segment), den |-> 100]
        remaining == [num |-> clip.duration - segment.sourceStartOffset,
                      den |-> segment.duration]
    IN IF FracLeq(requested, remaining) THEN requested ELSE remaining

SameRate(a, b) == a.num * b.den = b.num * a.den

\* a span of spanUs microseconds with its timestamps multiplied by a factor
\* given in millionths: its length in microseconds, nanoseconds, picoseconds
Rescaled(spanUs, factor) ==
    LET ps == (spanUs % 1000) * (factor % 1000)
        ns == (spanUs \div 1000) * (factor % 1000)
                + (spanUs % 1000) * (factor \div 1000) + ps \div 1000
    IN [us |-> (spanUs \div 1000) * (factor \div 1000) + ns \div 1000,
        ns |-> ns % 1000,
        ps |-> ps % 1000]

\* C29: for every segment and source clip, the rate export uses is the
\* effective rate of the preview, min(requestedRate, (clipDuration -
\* sourceStartOffset) / duration); the exported source span, rescaled by
\* speedFactor, is exactly as long as the segment, and it ends no later than
\* the source clip does.
C29_ExportRateIsPreviewRate ==
    (call.fn = "rate" /\ ret.done) =>
        /\ SameRate(ret.value.export.rate, ret.value.preview)
        /\ SameRate(ret.value.preview, MinRate(call.segment, call.clip))
        /\ Rescaled(ret.value.export.trimDuration, ret.value.export.setpts)
             = [us |-> call.segment.duration * 1000, ns |-> 0, ps |-> 0]
        /\ ret.value.export.trimStart + ret.value.export.trimDuration
             <= call.clip.duration * 1000

\* the window of a fade-in within its segment
FadeInWindow(fadeIn) ==
    [start |-> Max(0, fadeIn.startMs),
     end |-> Max(Max(0, fadeIn.startMs), fadeIn.endMs)]

\* the window of a fade-out within its segment: its edges are offsets from
\* the end of the segment, brought into [0, duration]
FadeOutWindow(segDuration, fadeOut) ==
    LET a == Max(0, Min(segDuration, segDuration + fadeOut.startMs))
        b == Max(0, Min(segDuration, segDuration + fadeOut.endMs))
    IN [start |-> Min(a, b), end |-> Max(a, b)]

IsCut(window) == window.start = window.end

\* C30: an enabled fade whose window has no length is a hard cut at that
\* point.  In the preview the alpha of such a fade-in is 0 before the point and
\* 1 from it on, the alpha of such a fade-out is 1 before the point and 0 from
\* it on, and no alpha is a quotient by zero; in the export no fade filter is
\* written with a duration of 0.
C30_ZeroLengthFadeIsAHardCut ==
    /\ (call.fn = "getFadeAlpha" /\ ret.done) =>
         LET fadeIn == FadeOrDefault(call.segment.fadeIn, defaultFadeIn)
             fadeOut == FadeOrDefault(call.segment.fadeOut, defaultFadeOut)
             inWindow == FadeInWindow(fadeIn)
             outWindow == FadeOutWindow(call.segment.duration, fadeOut)
             cutIn == fadeIn.enabled /\ IsCut(inWindow)
             cutOut == fadeOut.enabled /\ IsCut(outWindow)
         IN /\ ret.value.den # 0
            /\ (cutIn /\ call.localTimeMs < inWindow.end) => ret.value = FracZero
            /\ (cutIn /\ call.localTimeMs >= inWindow.end /\ ~fadeOut.enabled) =>
                   ret.value = FracOne
            /\ (cutOut /\ call.localTimeMs >= outWindow.end) => ret.value = FracZero
            /\ (cutOut /\ call.localTimeMs < outWindow.end /\ ~fadeIn.enabled) =>
                   ret.value = FracOne
    /\ (call.fn = "fadeFilters" /\ ret.done) =>
         \A i \in 1..Len(ret.value) : ret.value[i].d > 0

\* the preview is one ms before the cut of a fade-in whose window is [200, 200]
C30_Witness ==
    /\ call.fn = "getFadeAlpha"
    /\ ret.done
    /\ call.segment.fadeIn = [present |-> TRUE, enabled |-> TRUE,
                              startMs |-> 200, endMs |-> 200]
    /\ ~FadeOrDefault(call.segment.fadeOut, defaultFadeOut).enabled
    /\ call.localTimeMs = 199
    /\ ret.value = FracZero

WindowWithin(window, segDuration) ==
    window.enabled =>
        0 <= window.start /\ window.start <= window.end /\ window.end <= segDuration

\* C31: in the preview and in the export, the window of every enabled fade-in
\* and fade-out lies within [0, duration of the segment] before it is used,
\* whatever startMs and endMs are.
C31_FadeWindowsWithinSegment ==
    (call.fn = "fadeWindows" /\ ret.done) =>
        /\ WindowWithin(ret.value.preview.fadeIn, call.segment.duration)
        /\ WindowWithin(ret.value.preview.fadeOut, call.segment.duration)
        /\ WindowWithin(ret.value.export.fadeIn, call.segment.duration)
        /\ WindowWithin(ret.value.export.fadeOut, call.segment.duration)

\* C32: the bar count autoSyncClips uses for its preferred candidate length is
\* a whole number from 1 to 8 for every requested value, be it 0, negative,
\* fractional, not finite or above 8; it is 4 when no value is given.
C32_BarsWithinOneToEight ==
    (call.fn = "sanitizedBars" /\ ret.done) =>
        /\ ret.value \in 1..8
        /\ ~call.given => ret.value = 4

\* 12.5 bars were requested and 8 are used
C32_Witness ==
    /\ call.fn = "sanitizedBars"
    /\ ret.done
    /\ call.given
    /\ call.autoSyncBars = [kind |-> "finite", quarters |-> 50]
    /\ ret.value = 8

\* the candidate lengths of a call, in beats: preferredBars and those of 4, 2
\* and 1 bars below it
CandidateBeats ==
    { beatLength \in { PreferredBeats, 4 * BEATS_PER_BAR, 2 * BEATS_PER_BAR,
                       BEATS_PER_BAR } : beatLength <= PreferredBeats }

\* floor(-offset / secondsPerBeat), for a negative offset
LostBeats == (-call.grid.offset) \div SecondsPerBeat(call.grid.bpm)

\* C33: with a negative grid offset only the segment that starts at beat index
\* 0 is shortened, to max(1, candidate - floor(-offset / secondsPerBeat))
\* beats; every later segment has a candidate length as it is, and with an
\* offset of 0 or more so has every segment.
C33_OnlyFirstSegmentShortened ==
    (call.fn = "autoSyncClips" /\ ret.done /\ Len(call.clips) > 0) =>
        \A k \in 1..Len(ret.value) :
            LET beatIndex == StartBeatIndex(ret.value[k])
                chosen == EndBeatIndex(ret.value[k]) - beatIndex
            IN IF call.grid.offset < 0 /\ beatIndex = 0
               THEN \E candidate \in CandidateBeats :
                        chosen = Max(1, candidate - LostBeats)
               ELSE chosen \in CandidateBeats

\* on a grid whose offset is -0.7 s at 120 BPM the first segment is one beat
\* short of two bars and the second has a whole bar
C33_Witness ==
    /\ call.fn = "autoSyncClips" /\ ret.done
    /\ call.grid.offset = -700
    /\ call.grid.bpm = 120
    /\ PreferredBeats = 2 * BEATS_PER_BAR
    /\ Len(ret.value) >= 2
    /\ StartBeatIndex(ret.value[1]) = 0
    /\ EndBeatIndex(ret.value[1]) = 2 * BEATS_PER_BAR - 1
    /\ EndBeatIndex(ret.value[2]) - StartBeatIndex(ret.value[2]) = BEATS_PER_BAR

\* C34: autoSyncClips stops once a segment start exceeds the total duration:
\* no segment it returns has a timelineStart greater than totalDuration.
C34_NoSegmentStartsPastTotalDuration ==
    (call.fn = "autoSyncClips" /\ ret.done /\ Len(call.clips) > 0) =>
        \A k \in 1..Len(ret.value) :
            ret.value[k].timelineStart <= call.totalDuration

\* the 'close' or the 'error' event of child pid is handled in this step
ClosesOrErrors(pid) ==
    \/ children[pid].closeListener /\ ~children'[pid].closeListener
    \/ children[pid].errorPending /\ ~children'[pid].errorPending

\* a cancel message for jobId is handled in this step
CancelStep(jobId) == ffmpegCancel(jobId)

\* C35: cancellation is fire-and-forget.  Cancelling a job id that is unknown
\* or has finished changes nothing; cancelling a running job only signals its
\* process; the registry entry of a job is removed, and its run request
\* settled, once, only when its process closes or errors; after that the same
\* job id can be run again.
C35_CancelIsFireAndForget ==
    [][ /\ \A jobId \in JobIdChoices :
              CancelStep(jobId) =>
                  /\ activeJobs' = activeJobs
                  /\ ffmpegRunInvokes' = ffmpegRunInvokes
                  /\ activeJobs[jobId] = NoChild => children' = children
                  /\ activeJobs[jobId] # NoChild =>
                         \A pid \in 1..Len(children) :
                             /\ children'[pid].running = children[pid].running
                             /\ children'[pid].closeListener = children[pid].closeListener
                             /\ pid # activeJobs[jobId] => children'[pid] = children[pid]
        /\ \A jobId \in JobIds :
              (activeJobs[jobId] # NoChild /\ activeJobs'[jobId] = NoChild) =>
                  ClosesOrErrors(activeJobs[jobId])
        /\ \A i \in 1..Len(ffmpegRunInvokes) :
              /\ ffmpegRunInvokes[i].reply # PendingReply =>
                     ffmpegRunInvokes'[i].reply = ffmpegRunInvokes[i].reply
              /\ \A pid \in 1..Len(children) :
                     (children[pid].invoke = i
                        /\ ffmpegRunInvokes[i].reply = PendingReply
                        /\ ffmpegRunInvokes'[i].reply # PendingReply) =>
                         ClosesOrErrors(pid)
        /\ \A pid \in 1..Len(children) :
              (ClosesOrErrors(pid) /\ activeJobs[children[pid].jobId] = pid) =>
                  activeJobs'[children[pid].jobId] = NoChild ]_vars

\* the runProxy calls for a clip that have not settled
InFlight(runs, clipId) ==
    { i \in 1..Len(runs) : runs[i].clipId = clipId /\ ~runs[i].settled }

\* a start request for clipId is handled in this step
StartRequest(clipId) ==
    /\ steps' = steps + 1
    /\ last'.op \in {"startProxy", "startReverseProxy"}
    /\ last'.id = clipId

\* the promise of run i settles in this step
Settles(i) == ~proxyRuns[i].settled /\ proxyRuns'[i].settled

ExportStep == steps' = steps + 1 /\ last'.op = "export"

\* handleExport ran from its await through finally in this step
ExportSettledStep == steps' = steps + 1 /\ last'.op = "exportSettled"

\* the job id of the export attempt that awaits its renderer call
AwaitedJobId == ffmpegRunInvokes[exportJob.invoke].jobId

\* C37: every export attempt that sets exporting to true sets it back to
\* false once its renderer call has settled or an error is thrown, on every
\* path: exporting is true only while the attempt awaits runFfmpeg, the
\* attempts that end before the call (validation errors) leave it false, the
\* step that handles the settled call (success, failure, rejection) resets
\* it, and that step can be taken as soon as the call has settled (in a
\* behaviour that has handlers left to run); the progress listener is
\* registered only for the awaited job and is removed by that step; and an
\* export attempt closes the dialog only when the run succeeded.
C37_ExportingIsAlwaysReset ==
    [][ /\ exporting' <=> exportJob'.awaiting
        /\ progressListeners' =
               IF exporting' THEN {ffmpegRunInvokes'[exportJob'.invoke].jobId} ELSE {}
        /\ (ExportStep /\ exporting') =>
               /\ Len(ffmpegRunInvokes') = Len(ffmpegRunInvokes) + 1
               /\ exportJob'.invoke = Len(ffmpegRunInvokes')
        /\ ( /\ exporting
              /\ ffmpegRunInvokes[exportJob.invoke].reply # PendingReply
              /\ steps < MaxSteps ) =>
               ENABLED handleExportSettled
        /\ ExportSettledStep =>
               /\ exporting /\ ~exporting'
               /\ AwaitedJobId \in progressListeners
               /\ AwaitedJobId \notin progressListeners'
        /\ ((ExportStep \/ ExportSettledStep) /\ exportOpen /\ ~exportOpen') =>
               /\ ExportSettledStep
               /\ ffmpegRunInvokes[exportJob.invoke].reply.kind = "resolved"
               /\ ~IsFailure(ffmpegRunInvokes[exportJob.invoke].reply) ]_vars

\* a rejected renderer call has been handled: exporting is false again, the
\* listener is gone and the dialog is still open
C37_Witness ==
    /\ last.op = "exportSettled"
    /\ exportError.kind = "thrown"
    /\ ~exporting
    /\ progressListeners = {}
    /\ exportOpen

\* C38: autoSyncClips terminates for every input: each pass of the loop body
\* either leaves the loop or strictly increases beatIndex, for the adjusted
\* first segment and for skipped intervals shorter than 100 ms as well, the
\* loop is left once beatIndex has reached the last beat, and so every call
\* returns; it returns what the loop taken as a whole gives.
C38_AutoSyncTerminates ==
    /\ [][ InLoop => \/ ret'.done
                     \/ /\ InLoop'
                        /\ ret'.beatIndex > ret.beatIndex
                        /\ ret'.beatIndex <= Len(call.grid.beats) - 1 ]_vars
    /\ <>(ret.done)
    /\ [](ret.done => ret.value = autoSyncClips(call.clips, call.grid,
                                                call.totalDuration, call.preferredBars))

\* the first interval, shortened for a grid that starts before time 0, was
\* shorter than 100 ms and has been skipped
C38_Witness ==
    /\ InLoop
    /\ FirstSegmentBeatAdjustment(call.grid) > 0
    /\ ret.beatIndex = 1
    /\ ret.segments = <<>>

\* handleDeleteClip(id) ran in this step
DeleteClipStep(id) ==
    /\ steps' = steps + 1
    /\ last'.op = "deleteClip"
    /\ last'.id = id

\* C39: deleting a clip removes every segment that references it from all
\* tracks and keeps the other segments as they are, so after any sequence of
\* imports, timeline edits and clip deletions every segment's sourceClipId
\* is the id of a clip in the clip pool.
C39_NoSegmentOfADeletedClip ==
    [][ /\ \A id \in 1..MaxClips :
              DeleteClipStep(id) =>
                  /\ id \notin ClipIds(clips')
                  /\ \A t \in 1..Len(tracks) :
                         LET OfOtherClip(seg) == seg.sourceClipId # id
                         IN tracks'[t].segments =
                                SelectSeq(tracks[t].segments, OfOtherClip)
        /\ \A i \in 1..Len(FlatSegments(tracks')) :
              FlatSegments(tracks')[i].sourceClipId \in ClipIds(clips') ]_vars

\* a clip has been deleted with its segments, and segments of another clip
\* are still on the timeline
C39_Witness ==
    /\ last.op = "deleteClip"
    /\ Len(FlatSegments(tracks)) > 0
    /\ last.old > Len(FlatSegments(tracks))

====
